---- MODULE Spec2Model ----
(***************************************************************************)
(* Model of the instrument layer of discovery_mcp (package dwf,            *)
(* src/dwf/device.go) on top of the cgo driver bindings                    *)
(* (src/unnamed/part_003).                                                 *)
(*                                                                         *)
(* Every driver call is fallible: an action draws, for each driver call    *)
(* its handler can make, whether that call succeeds.  A Go runtime panic   *)
(* (index out of range on &buf[0], makeslice with a negative length) is    *)
(* not recovered anywhere in the program (src/unnamed/part_001:30-34       *)
(* builds the server without a recovery option), so it aborts the          *)
(* process: the variable aborted records that, and no handler runs after.  *)
(***************************************************************************)
EXTENDS Integers, Sequences, FiniteSets, TLC

VARIABLES
    aborted,    \* TRUE once a runtime panic has ended the process
    handle,     \* Device.handle: 0 when not connected
    info,       \* Device.info: NoInfo (nil), or the DeviceInfo cached by Open
    device,     \* driver side: the device behind the handle (NoDevice if none)
    csLevel,    \* SPI chip-select lines of the device: cs -> level (0 selected)
    spiLast,    \* the last SPI transfer operation: arguments, driver calls, result
    ioEnable,   \* DigitalIO output-enable register of the device (set of bits)
    ioOutput,   \* DigitalIO output-value register of the device (set of bits)
    ioLast,     \* the last Static I/O operation: arguments, masks, result
    inUse,      \* the acquisition engine the client works with ("none" if neither)
    bufferSize, \* scopeImpl.bufferSize and logicImpl.bufferSize: engine -> int
    trigSource, \* engine -> the trigger source last passed to its SourceSet call
    devStatus,  \* driver side: state of the acquisition that was armed last
    acq,        \* the acquisition operation in progress or completed last
    opLast,     \* the last operation of the other instruments: calls, result
    aio,        \* driver side: the analog-I/O channels of the device, with labels and nodes
    dmm,        \* dmmImpl.channel and dmmImpl.nodes, and how the last Open ended
    toolLast,   \* the last tool request the server handled, and its result
    inflight    \* per request being served: its driver calls, how many are issued

sessionVars == <<handle, info, device>>
spiVars == <<csLevel, spiLast>>
staticVars == <<ioEnable, ioOutput, ioLast>>
acqVars == <<inUse, bufferSize, trigSource, devStatus, acq>>

instVars == <<opLast, aio, dmm, toolLast, inflight>>

vars == <<aborted, sessionVars, spiVars, staticVars, acqVars, instVars>>

\* ------------------------------------------------------------------------
\* Values shared by all instruments
\* ------------------------------------------------------------------------

\* The nil slice / nil error of Go.
Nil == "nil"

\* An operation that has not run.
NoOp == [op |-> "none"]

\* Device.info == nil.
NoInfo == [cached |-> FALSE]

\* No device behind the handle.
NoDevice == [attached |-> FALSE]

\* ------------------------------------------------------------------------
\* Device session (src/dwf/device.go:26-232)
\* ------------------------------------------------------------------------

\* What the driver can answer about an attached device: the type that
\* dwfEnumDeviceType reports, named by deviceIDToName ("" for a type the
\* table does not hold), and the capabilities the info calls report.
DeviceProfiles ==
    { [attached |-> TRUE, name |-> "Analog Discovery 2",
       digitalIn |-> 16, digitalOut |-> 16, analogInBuf |-> 3, digitalInBuf |-> 2],
      [attached |-> TRUE, name |-> "Digital Discovery",
       digitalIn |-> 32, digitalOut |-> 16, analogInBuf |-> 0, digitalInBuf |-> 3],
      [attached |-> TRUE, name |-> "",
       digitalIn |-> 32, digitalOut |-> 32, analogInBuf |-> 2, digitalInBuf |-> 2] }

\* The capability queries of Device.Open whose failure the model draws; the
\* field of a failed query keeps its zero value (device.go:201-218).
QueryFailures == {{}, {"AnalogInBufferSize"}, {"DigitalOutCount"}}

\* Most devices one enumeration reports.
MaxEnum == 2

\* The handle dwfDeviceConfigOpen hands out.
OpenedHandle == 1

\* DeviceInfo as Device.Open fills it: the name of enumeration index 0
\* (device.go:179-183), the capabilities queried on the opened handle.
DeviceInfoOf(first, dev, failed) ==
    [cached |-> TRUE,
     Name |-> first.name,
     MaxAnalogInBufferSize |->
        IF "AnalogInBufferSize" \in failed THEN 0 ELSE dev.analogInBuf,
     DigitalInChannels |-> dev.digitalIn,
     DigitalOutChannels |-> IF "DigitalOutCount" \in failed THEN 0 ELSE dev.digitalOut]

\* No handler is in the middle of its driver calls (the model runs the
\* handlers one after the other).
Idle == ~(acq.op = "Record" /\ acq.pc \in {"polling", "read"})

\* The configuration indices a client requests (the handler's default is 0).
OpenConfigs == {0, 1}

\* Device.Open that gives up after the first open attempt.
Device_Open_firstOnly(enumOk, n, k, config) ==
    LET enum == [fn |-> "Enum", arg |-> <<>>, ok |-> enumOk]
        attempt == [fn |-> "DeviceConfigOpen", arg |-> <<0, config>>, ok |-> (k = 1)]
    IN IF ~enumOk THEN [calls |-> <<enum>>, err |-> "driver", handle |-> handle]
       ELSE IF n <= 0
       THEN [calls |-> <<enum>>, err |-> "no device", handle |-> handle]
       ELSE [calls |-> <<enum, attempt>>,
             err |-> IF k = 1 THEN Nil ELSE "open failed",
             handle |-> IF k = 1 THEN OpenedHandle ELSE handle]

\* Device.Open that lets go of the handle it holds before it tries.
Device_Open_dropsHandle(enumOk, n, k, config) ==
    LET enum == [fn |-> "Enum", arg |-> <<>>, ok |-> enumOk]
        m == IF k \in 1..n THEN k ELSE n
        attempts == [i \in 1..m |-> [fn |-> "DeviceConfigOpen",
                                     arg |-> <<i - 1, config>>, ok |-> (i = k)]]
    IN IF ~enumOk THEN [calls |-> <<enum>>, err |-> "driver", handle |-> 0]
       ELSE IF n <= 0 THEN [calls |-> <<enum>>, err |-> "no device", handle |-> 0]
       ELSE [calls |-> <<enum>> \o attempts,
             err |-> IF k \in 1..n THEN Nil ELSE "open failed",
             handle |-> IF k \in 1..n THEN OpenedHandle ELSE 0]

\* Device.Open up to the assignment of d.handle: dwfEnum, then, when it
\* reports n > 0 devices, dwfDeviceConfigOpen(i, config) for i = 0, 1, ...
\* until one yields a non-zero handle.  k is the number of the attempt that
\* yields it (none when k is not in 1..n).  ok of an attempt: it yielded a
\* non-zero handle.
Device_Open(enumOk, n, k, config) ==
    LET enum == [fn |-> "Enum", arg |-> <<>>, ok |-> enumOk]
        m == IF k \in 1..n THEN k ELSE n
        attempts == [i \in 1..m |-> [fn |-> "DeviceConfigOpen",
                                     arg |-> <<i - 1, config>>, ok |-> (i = k)]]
    IN IF ~enumOk THEN [calls |-> <<enum>>, err |-> "driver", handle |-> handle]
       ELSE IF n <= 0
       THEN [calls |-> <<enum>>, err |-> "no device", handle |-> handle]
       ELSE [calls |-> <<enum>> \o attempts,
             err |-> IF k \in 1..n THEN Nil ELSE "open failed",
             handle |-> IF k \in 1..n THEN OpenedHandle ELSE handle]

\* The record of a Device.Open in the log: the handle the session held
\* when Open was called, the devices enumerated, the configuration
\* requested, the calls and the error.
DeviceOpenDone(n, config, r) ==
    [inst |-> "device", op |-> "Open", before |-> handle, count |-> n,
     config |-> config, calls |-> r.calls, err |-> r.err, panicked |-> FALSE]

\* Device.Open(device, config) that succeeds with the k-th enumerated
\* device: n devices are enumerated, first is the one at index 0, dev the
\* one at index k - 1, the first whose dwfDeviceConfigOpen yields a handle.
\* The registers of the device behind a new handle start cleared.
DeviceOpenWith(k, counts, configs) ==
    /\ ~aborted
    /\ Idle
    /\ \E n \in counts :
       \E first \in DeviceProfiles, dev \in DeviceProfiles, failed \in QueryFailures :
          /\ k = 1 => dev = first
          /\ device' = dev
          /\ info' = DeviceInfoOf(first, dev, failed)
          /\ \E config \in configs :
                LET r == Device_Open(TRUE, n, k, config)
                IN /\ opLast' = DeviceOpenDone(n, config, r)
                   /\ handle' = r.handle
    /\ ioEnable' = {}
    /\ ioOutput' = {}
    /\ UNCHANGED <<inflight, toolLast, aio, dmm, aborted, spiVars, ioLast, acqVars>>

\* The successful Open of a client of the instruments: it asks for the
\* default configuration, and the device it gets is the last enumerated.
DeviceOpen(k) == DeviceOpenWith(k, {k}, {0})

\* Device.Open that returns an error: the enumeration fails, or reports no
\* device, or no attempt yields a handle.  It returns before d.handle and
\* d.info are assigned.
DeviceOpenFails ==
    /\ ~aborted
    /\ Idle
    /\ \E enumOk \in BOOLEAN, n \in 0..MaxEnum, config \in OpenConfigs :
         LET r == Device_Open(enumOk, n, 0, config)
         IN /\ opLast' = DeviceOpenDone(n, config, r)
            /\ handle' = r.handle
    /\ UNCHANGED <<inflight, toolLast, aio, dmm, aborted, info, device, spiVars,
                   staticVars, acqVars>>

\* Whether a driver call made now can succeed: any call can fail, and a call
\* on the zero handle (hdwfNone, the value dwfDeviceConfigOpen returns when
\* nothing was opened) is rejected.
DriverResults == IF handle = 0 THEN {FALSE} ELSE BOOLEAN

\* Device.Close() that never zeroes the handle.
Device_Close_keepsHandle(ok) ==
    [calls |-> IF handle # 0
               THEN <<[fn |-> "DeviceClose", arg |-> handle, ok |-> ok]>> ELSE <<>>,
     err |-> IF handle # 0 /\ ~ok THEN "driver" ELSE Nil,
     handle |-> handle]

\* Device.Close(): with a non-zero handle it calls dwfDeviceClose, zeroes
\* the handle and returns the result of the call; with the zero handle it
\* does nothing and returns nil.
Device_Close(ok) ==
    [calls |-> IF handle # 0
               THEN <<[fn |-> "DeviceClose", arg |-> handle, ok |-> ok]>> ELSE <<>>,
     err |-> IF handle # 0 /\ ~ok THEN "driver" ELSE Nil,
     handle |-> 0]

\* The close handler: d.info is left as it is.  prev is the operation the
\* session saw before this one, before the handle it found.
DeviceClose ==
    /\ ~aborted
    /\ Idle
    /\ \E ok \in (IF handle = 0 THEN {TRUE} ELSE BOOLEAN) :
         LET r == Device_Close(ok)
         IN /\ opLast' = [inst |-> "device", op |-> "Close", prev |-> <<opLast.inst, opLast.op>>,
                          before |-> handle, calls |-> r.calls, err |-> r.err,
                          panicked |-> FALSE]
            /\ handle' = r.handle
            /\ device' = IF r.handle = 0 THEN NoDevice ELSE device
    /\ UNCHANGED <<inflight, toolLast, aio, dmm, aborted, info, spiVars, staticVars, acqVars>>

\* ------------------------------------------------------------------------
\* uint32 arithmetic (src/dwf/device.go:863-865, 879, 911)
\*
\* A uint32 register is the set of its 1 bits.  A uint32 used as a shift
\* count or in a subtraction is kept as an integer modulo 2^32: a negative
\* representative x stands for the value x + 2^32.
\* ------------------------------------------------------------------------

\* Width of uint32.
RegWidth == 32

RegBits == 0..(RegWidth - 1)

\* A shift count as Go applies it: a count of RegWidth or more shifts every
\* bit out, and a negative representative is a value of at least 2^31.
ShiftCount(x) == IF x < 0 \/ x >= RegWidth THEN RegWidth ELSE x

\* number << position, number >> position on uint32.
Shl(number, position) ==
    {b + ShiftCount(position) : b \in number} \cap RegBits
Shr(number, position) ==
    {b - ShiftCount(position) : b \in number} \cap RegBits

\* number - 1 on uint32 (wraps at 0).
Decrement(number) ==
    IF number = {} THEN RegBits
    ELSE LET low == CHOOSE b \in number : \A c \in number : b <= c
         IN (number \ {low}) \cup {b \in RegBits : b < low}

\* rotateLeft(number, position, size uint32) uint32.
rotateLeft(number, position, size) ==
    Shl(number, position) \cup Shr(number, size - position)

\* ------------------------------------------------------------------------
\* Static I/O (src/dwf/device.go:838-951)
\* ------------------------------------------------------------------------

\* Channel arguments the callers pass.
ChannelArgs == {1, 25, 40}

\* staticIOImpl.channelCount().
channelCount ==
    IF ~info.cached THEN 16
    ELSE IF info.DigitalInChannels < info.DigitalOutChannels
         THEN info.DigitalInChannels
         ELSE info.DigitalOutChannels

\* staticIOImpl.adjustChannel(channel).
adjustChannel(channel) ==
    IF info.cached /\ info.Name = "Digital Discovery" THEN channel - 24 ELSE channel

\* The mask SetMode and SetState compute from the mask they read
\* (device.go:876-881 and 908-913), with ch := adjustChannel(channel) and
\* count := uint32(channelCount()).
NewMask(mask, channel, on) ==
    LET ch == adjustChannel(channel)
        count == channelCount
    IN IF on
       THEN mask \cup rotateLeft({0}, ch, count)
       ELSE LET bits == Decrement(Decrement(Shl({0}, count)))
            IN mask \cap rotateLeft(bits, ch, count)

\* What one SetMode / SetState does given the register it works on: the
\* Get call may fail (no Set is issued then), and so may the Set call.
\* ch and count are the adjusted channel and the channel count it used.
StaticResult(op, channel, on, reg, getOk, setOk) ==
    [op |-> op, channel |-> channel, on |-> on,
     ch |-> adjustChannel(channel), count |-> channelCount,
     read |-> IF getOk THEN reg ELSE {},
     written |-> IF getOk THEN NewMask(reg, channel, on) ELSE {},
     err |-> IF ~getOk THEN "get" ELSE IF setOk THEN Nil ELSE "set"]

\* staticIOImpl.SetMode(channel, output).
SetMode ==
    /\ ~aborted
    /\ \E channel \in ChannelArgs, output \in BOOLEAN, getOk, setOk \in DriverResults :
         LET r == StaticResult("SetMode", channel, output, ioEnable, getOk, setOk)
         IN /\ ioLast' = r
            /\ ioEnable' = IF r.err = Nil THEN r.written ELSE ioEnable
    /\ UNCHANGED <<instVars, aborted, sessionVars, spiVars, ioOutput, acqVars>>

\* staticIOImpl.SetState(channel, value).
SetState ==
    /\ ~aborted
    /\ \E channel \in ChannelArgs, value \in BOOLEAN, getOk, setOk \in DriverResults :
         LET r == StaticResult("SetState", channel, value, ioOutput, getOk, setOk)
         IN /\ ioLast' = r
            /\ ioOutput' = IF r.err = Nil THEN r.written ELSE ioOutput
    /\ UNCHANGED <<instVars, aborted, sessionVars, spiVars, ioEnable, acqVars>>

\* ------------------------------------------------------------------------
\* SPI (src/dwf/device.go:1012-1104)
\* ------------------------------------------------------------------------

\* Chip-select lines the callers use.
CsLines == {0, 1}

\* Largest payload / receive count a caller passes.
MaxSpiLen == 2

\* A byte the bus shifts in.
RxBytes == {0, 165}

\* dwfDigitalSpiSelect(h, cs, level) as it appears on the driver interface.
SelectCall(cs, level, ok) == [fn |-> "select", cs |-> cs, level |-> level, ok |-> ok]

\* dwfDigitalSpiRead / dwfDigitalSpiWrite / dwfDigitalSpiWriteRead: the C call
\* is reached only with non-empty slices, since the binding evaluates
\* &buf[0] (and &txData[0], &rxBuf[0]) before the call.
TransferCall(fn, ntx, nrx, ok) == [fn |-> fn, ntx |-> ntx, nrx |-> nrx, ok |-> ok]

\* make([]byte, count) filled by the driver.
RxBuffer(count, fill) == [i \in 1..count |-> fill]

\* The outcome of an operation: the driver calls it issued, in order, what
\* it returned (data, err) and whether it panicked instead of returning.
Outcome(calls, data, err, panicked) ==
    [calls |-> calls, data |-> data, err |-> err, panicked |-> panicked]

\* A plausible slip: the error path of the transfer returns at once and
\* leaves the chip selected.
spiImpl_Read_leak(count, cs, aOk, tOk, dOk, fill) ==
    IF ~aOk THEN Outcome(<<SelectCall(cs, 0, FALSE)>>, Nil, "select", FALSE)
    ELSE IF count <= 0 THEN Outcome(<<SelectCall(cs, 0, TRUE)>>, Nil, Nil, TRUE)
    ELSE IF ~tOk THEN
        Outcome(<<SelectCall(cs, 0, TRUE), TransferCall("read", 0, count, FALSE)>>,
                Nil, "transfer", FALSE)
    ELSE Outcome(<<SelectCall(cs, 0, TRUE), TransferCall("read", 0, count, TRUE),
                   SelectCall(cs, 1, dOk)>>,
                 RxBuffer(count, fill), IF dOk THEN Nil ELSE "deselect", FALSE)

\* spiImpl.Read(count, cs).
spiImpl_Read(count, cs, aOk, tOk, dOk, fill) ==
    IF ~aOk THEN Outcome(<<SelectCall(cs, 0, FALSE)>>, Nil, "select", FALSE)
    ELSE IF count <= 0 THEN
        \* make([]byte, 0) then &buf[0] inside dwfDigitalSpiRead: the
        \* panic comes after the select and before the C transfer call.
        Outcome(<<SelectCall(cs, 0, TRUE)>>, Nil, Nil, TRUE)
    ELSE IF ~tOk THEN
        Outcome(<<SelectCall(cs, 0, TRUE), TransferCall("read", 0, count, FALSE),
                  SelectCall(cs, 1, dOk)>>,
                Nil, "transfer", FALSE)
    ELSE Outcome(<<SelectCall(cs, 0, TRUE), TransferCall("read", 0, count, TRUE),
                   SelectCall(cs, 1, dOk)>>,
                 RxBuffer(count, fill), IF dOk THEN Nil ELSE "deselect", FALSE)

\* A plausible slip: the transfer is started although the select failed.
spiImpl_Write_unchecked(n, cs, aOk, tOk, dOk) ==
    IF n <= 0 THEN Outcome(<<SelectCall(cs, 0, aOk)>>, Nil, Nil, TRUE)
    ELSE IF ~tOk THEN
        Outcome(<<SelectCall(cs, 0, aOk), TransferCall("write", n, 0, FALSE),
                  SelectCall(cs, 1, dOk)>>,
                Nil, "transfer", FALSE)
    ELSE Outcome(<<SelectCall(cs, 0, aOk), TransferCall("write", n, 0, TRUE),
                   SelectCall(cs, 1, dOk)>>,
                 Nil, IF dOk THEN Nil ELSE "deselect", FALSE)

\* spiImpl.Write(data, cs) with len(data) = n.  Write returns an error only.
spiImpl_Write(n, cs, aOk, tOk, dOk) ==
    IF ~aOk THEN Outcome(<<SelectCall(cs, 0, FALSE)>>, Nil, "select", FALSE)
    ELSE IF n <= 0 THEN Outcome(<<SelectCall(cs, 0, TRUE)>>, Nil, Nil, TRUE)
    ELSE IF ~tOk THEN
        Outcome(<<SelectCall(cs, 0, TRUE), TransferCall("write", n, 0, FALSE),
                  SelectCall(cs, 1, dOk)>>,
                Nil, "transfer", FALSE)
    ELSE Outcome(<<SelectCall(cs, 0, TRUE), TransferCall("write", n, 0, TRUE),
                   SelectCall(cs, 1, dOk)>>,
                 Nil, IF dOk THEN Nil ELSE "deselect", FALSE)

\* spiImpl.Exchange(txData, rxCount, cs) with len(txData) = ntx.
spiImpl_Exchange(ntx, rxCount, cs, aOk, tOk, dOk, fill) ==
    IF ~aOk THEN Outcome(<<SelectCall(cs, 0, FALSE)>>, Nil, "select", FALSE)
    ELSE IF ntx <= 0 \/ rxCount <= 0 THEN
        Outcome(<<SelectCall(cs, 0, TRUE)>>, Nil, Nil, TRUE)
    ELSE IF ~tOk THEN
        Outcome(<<SelectCall(cs, 0, TRUE), TransferCall("writeread", ntx, rxCount, FALSE),
                  SelectCall(cs, 1, dOk)>>,
                Nil, "transfer", FALSE)
    ELSE Outcome(<<SelectCall(cs, 0, TRUE), TransferCall("writeread", ntx, rxCount, TRUE),
                   SelectCall(cs, 1, dOk)>>,
                 RxBuffer(rxCount, fill), IF dOk THEN Nil ELSE "deselect", FALSE)

\* The level of line cs after the driver has seen the calls, in order: a
\* select call that succeeds drives its line.
RECURSIVE LevelAfter(_, _, _)
LevelAfter(level, cs, calls) ==
    IF calls = <<>> THEN level
    ELSE LET c == Head(calls)
         IN LevelAfter(IF c.fn = "select" /\ c.cs = cs /\ c.ok THEN c.level ELSE level,
                       cs, Tail(calls))

\* The state change common to the three transfer operations.
SpiEffect(op, cs, out) ==
    /\ spiLast' = [op |-> op, cs |-> cs, calls |-> out.calls, data |-> out.data,
                   err |-> out.err, panicked |-> out.panicked]
    /\ csLevel' = [l \in CsLines |-> LevelAfter(csLevel[l], l, out.calls)]
    /\ aborted' = out.panicked

\* A transfer operation called by itself.
SpiDone(op, cs, out) ==
    /\ SpiEffect(op, cs, out)
    /\ UNCHANGED <<instVars, sessionVars, staticVars, acqVars>>

SpiRead ==
    /\ ~aborted
    /\ \E count \in 0..MaxSpiLen, cs \in CsLines, aOk, tOk, dOk \in DriverResults,
          fill \in RxBytes :
            SpiDone("Read", cs, spiImpl_Read(count, cs, aOk, tOk, dOk, fill))

SpiWrite ==
    /\ ~aborted
    /\ \E n \in 0..MaxSpiLen, cs \in CsLines, aOk, tOk, dOk \in DriverResults :
            SpiDone("Write", cs, spiImpl_Write(n, cs, aOk, tOk, dOk))

SpiExchange ==
    /\ ~aborted
    /\ \E ntx \in 0..MaxSpiLen, rxCount \in 0..MaxSpiLen, cs \in CsLines,
          aOk, tOk, dOk \in DriverResults, fill \in RxBytes :
            SpiDone("Exchange", cs,
                    spiImpl_Exchange(ntx, rxCount, cs, aOk, tOk, dOk, fill))

\* ------------------------------------------------------------------------
\* Acquisition engines: oscilloscope (src/dwf/device.go:278-373) and logic
\* analyzer (src/dwf/device.go:623-727)
\*
\* scopeImpl and logicImpl keep their own bufferSize and address different
\* engines of the driver (FDwfAnalogIn*, FDwfDigitalIn*): what one does has
\* no effect on the other.  A behaviour follows the client of one engine,
\* inUse.  Sampling frequencies, voltages and timeouts are passed through to
\* the driver unchanged and are not modelled.
\* ------------------------------------------------------------------------

Engines == {"scope", "logic"}

\* cfg.BufferSize as the handlers pass it on: any int of the request.
BufferSizeArgs == {-1, 0, 1, 4}

\* A driver call as it appears on the driver interface.
DrvCall(fn, arg) == [fn |-> fn, arg |-> arg, ok |-> TRUE]

\* The calls a handler issues when it makes the planned calls in order and
\* returns the error of the first that fails: failAt is the index of the
\* failing call (0 when none fails).
Issue(planned, failAt) ==
    LET m == IF failAt \in 1..Len(planned) THEN failAt ELSE Len(planned)
    IN [calls |-> [i \in 1..m |-> [planned[i] EXCEPT !.ok = (i # failAt)]],
        err |-> IF failAt \in 1..Len(planned) THEN planned[failAt].fn ELSE Nil,
        panicked |-> FALSE]

\* Where a handler of up to n driver calls can fail: anywhere or nowhere,
\* and at its first call on the zero handle.
FailPoints(n) == IF handle = 0 THEN {1} ELSE 0..n

\* bufSize := cfg.BufferSize; if bufSize == 0 || bufSize > maxBuf then maxBuf.
EffectiveSize(size, maxBuf) ==
    IF size = 0 \/ size > maxBuf THEN maxBuf ELSE size

\* scopeImpl.Open(cfg): s.bufferSize is assigned after the three channel
\* calls and before dwfAnalogInBufferSizeSet.
scopeImpl_Open(size, failAt) ==
    LET maxBuf == IF info.cached THEN info.MaxAnalogInBufferSize ELSE 0
        bufSize == EffectiveSize(size, maxBuf)
        out == Issue(<<DrvCall("ChannelEnableSet", -1),
                       DrvCall("ChannelOffsetSet", -1),
                       DrvCall("ChannelRangeSet", -1),
                       DrvCall("BufferSizeSet", bufSize),
                       DrvCall("FrequencySet", 0),
                       DrvCall("ChannelFilterSet", -1)>>, failAt)
    IN [calls |-> out.calls, err |-> out.err,
        recorded |-> IF failAt \in 1..3 THEN bufferSize["scope"] ELSE bufSize]

\* logicImpl.Open(cfg): the error of dwfDigitalInBufferSizeInfo is dropped
\* (maxBuf is 0 then), and l.bufferSize is assigned before any call that
\* can make Open fail.
logicImpl_Open(size, infoOk, failAt) ==
    LET maxBuf == IF infoOk THEN device.digitalInBuf ELSE 0
        bufSize == EffectiveSize(size, maxBuf)
        out == Issue(<<DrvCall("InternalClockInfo", 0),
                       DrvCall("DividerSet", 0),
                       DrvCall("SampleFormatSet", 16),
                       DrvCall("BufferSizeSet", bufSize)>>, failAt)
    IN [calls |-> <<[fn |-> "BufferSizeInfo", arg |-> 0, ok |-> infoOk]>> \o out.calls,
        err |-> out.err,
        recorded |-> bufSize]

\* The state change common to the two Open operations.
OpenDone(e, size, r) ==
    /\ bufferSize' = [bufferSize EXCEPT ![e] = r.recorded]
    /\ acq' = [engine |-> e, op |-> "Open", size |-> size,
               calls |-> r.calls, err |-> r.err]
    /\ UNCHANGED <<instVars, aborted, sessionVars, spiVars, staticVars,
                   inUse, trigSource, devStatus>>

ScopeOpen ==
    /\ ~aborted
    /\ Idle
    /\ inUse = "scope"
    /\ \E size \in BufferSizeArgs, failAt \in FailPoints(6) :
         OpenDone("scope", size, scopeImpl_Open(size, failAt))

LogicOpen ==
    /\ ~aborted
    /\ Idle
    /\ inUse = "logic"
    /\ \E size \in BufferSizeArgs, infoOk \in DriverResults, failAt \in FailPoints(4) :
         OpenDone("logic", size, logicImpl_Open(size, infoOk, failAt))

\* cfg.Source values the scope trigger is given (TrigSrcNone,
\* TrigSrcDetectorAnalogIn, TrigSrcExternal1 of src/dwf/types.go:27-41).
ScopeSources == {"None", "DetectorAnalogIn", "External1"}

\* Scope channels the callers name (1-based).
ScopeChannels == {1}

\* cfg.Position and cfg.Channel of a logic trigger: any int of the request.
PositionArgs == {-1, 1, 4}
TriggerLines == {-1, 3}

\* A plausible slip: a disabled trigger is left as it is, without a call.
scopeImpl_SetTrigger_noCall(enable, source, channel, rising, failAt) ==
    IF enable /\ source # "None"
    THEN Issue(<<DrvCall("TriggerAutoTimeoutSet", 0),
                 DrvCall("TriggerSourceSet", source),
                 DrvCall("TriggerChannelSet",
                         IF source = "DetectorAnalogIn" THEN channel - 1 ELSE channel),
                 DrvCall("TriggerTypeSet", "edge"),
                 DrvCall("TriggerLevelSet", 0),
                 DrvCall("TriggerConditionSet", IF rising THEN "rise" ELSE "fall")>>,
               failAt)
    ELSE Issue(<<>>, 0)

\* scopeImpl.SetTrigger(cfg).
scopeImpl_SetTrigger(enable, source, channel, rising, failAt) ==
    IF enable /\ source # "None"
    THEN Issue(<<DrvCall("TriggerAutoTimeoutSet", 0),
                 DrvCall("TriggerSourceSet", source),
                 DrvCall("TriggerChannelSet",
                         IF source = "DetectorAnalogIn" THEN channel - 1 ELSE channel),
                 DrvCall("TriggerTypeSet", "edge"),
                 DrvCall("TriggerLevelSet", 0),
                 DrvCall("TriggerConditionSet", IF rising THEN "rise" ELSE "fall")>>,
               failAt)
    ELSE Issue(<<DrvCall("TriggerSourceSet", "None")>>, failAt)

\* logicImpl.SetTrigger(cfg).  chBit := cUint(1 << cfg.Channel) panics on
\* a negative channel, after the prefill call.
logicImpl_SetTrigger(enable, position, channel, rising, failAt) ==
    IF ~enable THEN Issue(<<DrvCall("TriggerSourceSet", "None")>>, failAt)
    ELSE
      LET size == bufferSize["logic"]
          pos0 == IF position < 0 THEN 0 ELSE position
          pos == IF pos0 > size THEN size ELSE pos0
          head == <<DrvCall("TriggerSourceSet", "DetectorDigitalIn"),
                    DrvCall("TriggerPositionSet", size - pos),
                    DrvCall("TriggerPrefillSet", pos)>>
          chBit == Shl({0}, channel)
          edges == IF rising
                   THEN <<DrvCall("TriggerSet", <<{}, chBit, {}, {}>>),
                          DrvCall("TriggerResetSet", <<{}, {}, chBit, {}>>)>>
                   ELSE <<DrvCall("TriggerSet", <<chBit, {}, {}, {}>>),
                          DrvCall("TriggerResetSet", <<{}, {}, {}, chBit>>)>>
          rest == <<DrvCall("TriggerAutoTimeoutSet", 0),
                    DrvCall("TriggerLengthSet", 0),
                    DrvCall("TriggerCountSet", 0)>>
      IN IF channel < 0 /\ failAt \notin 1..3
         THEN [calls |-> head, err |-> Nil, panicked |-> TRUE]
         ELSE Issue(head \o edges \o rest, failAt)

\* The source passed to the last TriggerSourceSet among calls, prev if none.
RECURSIVE SourceAfter(_, _)
SourceAfter(prev, calls) ==
    IF calls = <<>> THEN prev
    ELSE LET c == Head(calls)
         IN SourceAfter(IF c.fn = "TriggerSourceSet" THEN c.arg ELSE prev, Tail(calls))

\* The state change common to the two SetTrigger operations.  disabling
\* tells whether cfg asked for no trigger.
TriggerDone(e, disabling, r) ==
    /\ acq' = [engine |-> e, op |-> "SetTrigger", disabling |-> disabling,
               before |-> IF disabling THEN trigSource[e] ELSE "any",
               calls |-> r.calls, err |-> r.err, panicked |-> r.panicked]
    /\ trigSource' = [trigSource EXCEPT ![e] = SourceAfter(trigSource[e], r.calls)]
    /\ aborted' = r.panicked
    /\ UNCHANGED <<instVars, sessionVars, spiVars, staticVars, inUse, bufferSize, devStatus>>

ScopeSetTrigger ==
    /\ ~aborted
    /\ Idle
    /\ inUse = "scope"
    /\ \E enable \in BOOLEAN, source \in ScopeSources, channel \in ScopeChannels,
          rising \in BOOLEAN, failAt \in FailPoints(6) :
         TriggerDone("scope", ~(enable /\ source # "None"),
                     scopeImpl_SetTrigger(enable, source, channel, rising, failAt))

LogicSetTrigger ==
    /\ ~aborted
    /\ Idle
    /\ inUse = "logic"
    /\ \E enable \in BOOLEAN, position \in PositionArgs, channel \in TriggerLines,
          rising \in BOOLEAN, failAt \in FailPoints(8) :
         TriggerDone("logic", ~enable,
                     logicImpl_SetTrigger(enable, position, channel, rising, failAt))

\* Width of a logic-analyzer sample (dwfDigitalInSampleFormatSet(h, 16),
\* []uint16).
SampleWidth == 16

SampleBits == 0..(SampleWidth - 1)

\* 1 << channel and x >> channel on uint16, for channel >= 0: a count of
\* SampleWidth or more shifts every bit out.
Shl16(number, count) ==
    {b + (IF count >= SampleWidth THEN SampleWidth ELSE count) : b \in number}
        \cap SampleBits
Shr16(number, count) ==
    {b - (IF count >= SampleWidth THEN SampleWidth ELSE count) : b \in number}
        \cap SampleBits

\* Raw 16-bit words the logic analyzer delivers, as sets of 1 bits: 0b1010
\* and 0x8001.
RawWords == {{1, 3}, {0, 15}}

\* Volt values the oscilloscope delivers.
ScopeSamples == {0, 5}

\* Lines a logic Record is asked for: any int of the request.
RecordLines == {-1, 0, 1, 15}

\* A plausible slip: the line's bit is masked but not shifted down.
ExtractLine_masked(w, channel) == w \cap Shl16({0}, channel)

\* buffer[i] = (buffer[i] & (1 << channel)) >> channel.
ExtractLine(w, channel) == Shr16(w \cap Shl16({0}, channel), channel)

\* A plausible slip: the loop is left after the first poll that succeeds.
PollNext_anyStatus(ok, status) ==
    IF ~ok THEN "returned" ELSE "read"

\* One round of the poll loop of Record: a failed status call returns, a
\* status of cDwfStateDone leaves the loop, anything else polls again.
PollNext(ok, status) ==
    IF ~ok THEN "returned"
    ELSE IF status = "done" THEN "read"
    ELSE "polling"

\* What Record does once its poll loop has seen done, with size the
\* recorded buffer size.  make([]T, size) panics on a negative size and
\* &buf[0] on an empty slice, both before the C call; a failed read returns
\* (nil, err); the logic analyzer then reduces every word to the line asked
\* for, and 1 << channel panics on a negative channel.
ReadResult(e, size, channel, ok, raw) ==
    IF size <= 0 THEN [pc |-> "panicked", read |-> FALSE, hasData |-> FALSE,
                       raw |-> <<>>, data |-> <<>>, err |-> Nil]
    ELSE IF ~ok THEN [pc |-> "returned", read |-> TRUE, hasData |-> FALSE,
                      raw |-> <<>>, data |-> <<>>, err |-> "StatusData"]
    ELSE IF e = "logic" /\ channel < 0
         THEN [pc |-> "panicked", read |-> TRUE, hasData |-> FALSE,
               raw |-> raw, data |-> <<>>, err |-> Nil]
    ELSE [pc |-> "returned", read |-> TRUE, hasData |-> TRUE, raw |-> raw,
          data |-> IF e = "logic"
                   THEN [i \in 1..size |-> ExtractLine(raw[i], channel)]
                   ELSE raw,
          err |-> Nil]

\* Record(channel), first step: dwfAnalogInConfigure / dwfDigitalInConfigure
\* (h, false, true) arms the acquisition; its failure returns (nil, err).
RecordStart ==
    /\ ~aborted
    /\ Idle
    /\ inUse \in Engines
    /\ \E channel \in (IF inUse = "scope" THEN ScopeChannels ELSE RecordLines),
          ok \in DriverResults :
         /\ acq' = [engine |-> inUse, op |-> "Record", channel |-> channel,
                    pc |-> IF ok THEN "polling" ELSE "returned",
                    armed |-> ok, waited |-> FALSE, sawDone |-> FALSE,
                    read |-> FALSE, count |-> 0, hasData |-> FALSE,
                    raw |-> <<>>, data |-> <<>>,
                    err |-> IF ok THEN Nil ELSE "Configure"]
         /\ devStatus' = IF ok THEN "running" ELSE devStatus
    /\ UNCHANGED <<instVars, aborted, sessionVars, spiVars, staticVars,
                   inUse, bufferSize, trigSource>>

\* Record, one round of its poll loop: dwfAnalogInStatus / dwfDigitalInStatus.
RecordPoll ==
    /\ ~aborted
    /\ acq.op = "Record"
    /\ acq.pc = "polling"
    /\ \E ok \in DriverResults :
         LET pc == PollNext(ok, devStatus)
         IN acq' = [acq EXCEPT !.pc = pc,
                               !.sawDone = ok /\ devStatus = "done",
                               !.waited = @ \/ pc = "polling",
                               !.err = IF ok THEN Nil ELSE "Status"]
    /\ UNCHANGED <<instVars, aborted, sessionVars, spiVars, staticVars,
                   inUse, bufferSize, trigSource, devStatus>>

\* Record, after the loop: the data read and what follows it.
RecordRead ==
    /\ ~aborted
    /\ acq.op = "Record"
    /\ acq.pc = "read"
    /\ LET e == acq.engine
           size == bufferSize[e]
       IN \E ok \in DriverResults :
          \E raw \in (IF size <= 0 \/ ~ok THEN {<<>>}
                      ELSE IF e = "logic" THEN [1..size -> RawWords]
                      ELSE {[i \in 1..size |-> v] : v \in ScopeSamples}) :
             LET r == ReadResult(e, size, acq.channel, ok, raw)
             IN /\ acq' = [acq EXCEPT !.pc = r.pc, !.read = r.read,
                                      !.count = IF r.read THEN size ELSE 0,
                                      !.hasData = r.hasData, !.raw = r.raw,
                                      !.data = r.data, !.err = r.err]
                /\ aborted' = (r.pc = "panicked")
    /\ UNCHANGED <<instVars, sessionVars, spiVars, staticVars,
                   inUse, bufferSize, trigSource, devStatus>>

\* The device completes the acquisition that is running.
DeviceDone ==
    /\ ~aborted
    /\ devStatus = "running"
    /\ devStatus' = "done"
    /\ UNCHANGED <<instVars, aborted, sessionVars, spiVars, staticVars,
                   inUse, bufferSize, trigSource, acq>>

\* scopeImpl.Close() that does nothing on an engine it has not opened.
scopeImpl_Close_onlyOpened(ok) ==
    IF bufferSize["scope"] = 0
    THEN [calls |-> <<>>, err |-> Nil]
    ELSE [calls |-> <<[fn |-> "Reset", arg |-> "AnalogIn", ok |-> ok]>>,
          err |-> IF ok THEN Nil ELSE "Reset"]

\* scopeImpl.Close(): return dwfAnalogInReset(h).
scopeImpl_Close(ok) ==
    [calls |-> <<[fn |-> "Reset", arg |-> "AnalogIn", ok |-> ok]>>,
     err |-> IF ok THEN Nil ELSE "Reset"]

\* logicImpl.Close(): return dwfDigitalInReset(h).
logicImpl_Close(ok) ==
    [calls |-> <<[fn |-> "Reset", arg |-> "DigitalIn", ok |-> ok]>>,
     err |-> IF ok THEN Nil ELSE "Reset"]

\* The state change common to the two Close operations: neither touches
\* the recorded buffer size.
CloseDone(e, r) ==
    /\ acq' = [engine |-> e, op |-> "Close", prev |-> acq.op,
               calls |-> r.calls, err |-> r.err]
    /\ UNCHANGED <<instVars, aborted, sessionVars, spiVars, staticVars,
                   inUse, bufferSize, trigSource, devStatus>>

ScopeClose ==
    /\ ~aborted
    /\ Idle
    /\ inUse = "scope"
    /\ \E ok \in DriverResults : CloseDone("scope", scopeImpl_Close(ok))

LogicClose ==
    /\ ~aborted
    /\ Idle
    /\ inUse = "logic"
    /\ \E ok \in DriverResults : CloseDone("logic", logicImpl_Close(ok))

\* Close() of the pattern generator, static I/O, UART, SPI and I2C: each
\* returns the result of the reset call of its driver instrument
\* (dwfDigitalOutReset, dwfDigitalIOReset, dwfDigitalUartReset,
\* dwfDigitalSpiReset, dwfDigitalI2cReset).
InstrumentClose(inst) ==
    /\ ~aborted
    /\ Idle
    /\ \E ok \in DriverResults :
         opLast' = [inst |-> inst, op |-> "Close",
                    prev |-> <<opLast.inst, opLast.op>>,
                    calls |-> <<[fn |-> "Reset", arg |-> inst, ok |-> ok]>>,
                    hasData |-> FALSE,
                    err |-> IF ok THEN Nil ELSE "Reset", panicked |-> FALSE]
    /\ UNCHANGED <<inflight, toolLast, aio, dmm, aborted, sessionVars, spiVars,
                   staticVars, acqVars>>

\* ------------------------------------------------------------------------
\* Pattern generator (src/dwf/device.go:731-836)
\*
\* Frequencies are whole hertz, duty cycles whole percent: on such values
\* int(x / y) of the float64 code is the integer quotient.
\* ------------------------------------------------------------------------

\* What FDwfDigitalOutInternalClockInfo reports, in hertz.
InternalClock == 100

\* The calls among calls that went to driver function fn, in order.
CallsTo(calls, fn) == SelectSeq(calls, LAMBDA c : c.fn = fn)

\* PatternConfig values the callers pass: pulses of several frequencies
\* (one above the internal clock), duty cycles and trigger settings, custom
\* patterns with and without data, and a random pattern.
PatternConfigs ==
    [Channel : {25}, Function : {"pulse"}, Frequency : {3, 100, 200},
     DutyCycle : {0, 50, 99, 100}, DataLen : {0}, RunTime : {0},
     Trigger : {"off", "rise"}]
    \cup
    [Channel : {25}, Function : {"custom"}, Frequency : {3},
     DutyCycle : {50}, DataLen : {0, 2}, RunTime : {-1, 0}, Trigger : {"off"}]
    \cup
    [Channel : {25}, Function : {"random"}, Frequency : {3},
     DutyCycle : {50}, DataLen : {0}, RunTime : {0}, Trigger : {"off"}]

\* The pulse counters with the step count taken as the clock periods per
\* period of the output.
PulseCounters_perPeriod(cfg, divider) ==
    LET steps == InternalClock \div cfg.Frequency
        high == (steps * cfg.DutyCycle) \div 100
    IN [steps |-> steps, high |-> high, low |-> steps - high]

\* The pulse counters of Generate: steps, high and low for a divider
\* other than 0.
PulseCounters(cfg, divider) ==
    LET steps == (InternalClock \div cfg.Frequency) \div divider
        high == (steps * cfg.DutyCycle) \div 100
    IN [steps |-> steps, high |-> high, low |-> steps - high]

\* patternImpl.Generate(cfg).  For a pulse, the division by a divider of 0
\* (a frequency above the internal clock) panics before the counter call.
patternImpl_Generate(cfg, failAt) ==
    LET ch == adjustChannel(cfg.Channel)
        divider == InternalClock \div cfg.Frequency
        run == IF cfg.RunTime < 0 /\ cfg.DataLen > 0
               THEN cfg.DataLen \div cfg.Frequency
               ELSE cfg.RunTime
        head == <<DrvCall("InternalClockInfo", 0),
                  DrvCall("EnableSet", <<ch, TRUE>>),
                  DrvCall("TypeSet", <<ch, cfg.Function>>),
                  DrvCall("DividerSet", <<ch, divider>>),
                  DrvCall("IdleSet", ch),
                  DrvCall("RunSet", run),
                  DrvCall("WaitSet", 0),
                  DrvCall("RepeatSet", 0),
                  DrvCall("RepeatTriggerSet", cfg.Trigger # "off")>>
                \o (IF cfg.Trigger # "off"
                    THEN <<DrvCall("TriggerSourceSet", "source"),
                           DrvCall("TriggerSlopeSet", cfg.Trigger)>>
                    ELSE <<>>)
        body == IF cfg.Function = "pulse"
                THEN <<DrvCall("CounterSet",
                               [ch |-> ch,
                                low |-> PulseCounters(cfg, divider).low,
                                high |-> PulseCounters(cfg, divider).high])>>
                ELSE IF cfg.Function = "custom" /\ cfg.DataLen > 0
                     THEN <<DrvCall("DataSet", <<ch, cfg.DataLen>>)>>
                     ELSE <<>>
    IN IF failAt \in 1..Len(head) THEN Issue(head, failAt)
       ELSE IF cfg.Function = "pulse" /\ divider = 0
            THEN [calls |-> head, err |-> Nil, panicked |-> TRUE]
            ELSE Issue(head \o body \o <<DrvCall("Configure", TRUE)>>, failAt)

PatternGenerate ==
    /\ ~aborted
    /\ Idle
    /\ \E cfg \in PatternConfigs, failAt \in FailPoints(13) :
         LET r == patternImpl_Generate(cfg, failAt)
             divider == InternalClock \div cfg.Frequency
         IN /\ opLast' = [inst |-> "pattern", op |-> "Generate", cfg |-> cfg,
                          steps |-> IF divider = 0 THEN 0
                                    ELSE PulseCounters(cfg, divider).steps,
                          calls |-> r.calls, err |-> r.err, panicked |-> r.panicked]
            /\ aborted' = r.panicked
    /\ UNCHANGED <<inflight, toolLast, aio, dmm, sessionVars, spiVars, staticVars, acqVars>>

\* patternImpl.Enable that passes the channel argument through.
patternImpl_Enable_noOffset(channel, failAt) ==
    Issue(<<DrvCall("EnableSet", <<channel, TRUE>>), DrvCall("Configure", TRUE)>>,
          failAt)

\* patternImpl.Enable(channel).
patternImpl_Enable(channel, failAt) ==
    LET ch == IF info.cached /\ info.Name = "Digital Discovery"
              THEN channel - 24 ELSE channel
    IN Issue(<<DrvCall("EnableSet", <<ch, TRUE>>), DrvCall("Configure", TRUE)>>,
             failAt)

\* patternImpl.Disable(channel).
patternImpl_Disable(channel, failAt) ==
    LET ch == IF info.cached /\ info.Name = "Digital Discovery"
              THEN channel - 24 ELSE channel
    IN Issue(<<DrvCall("EnableSet", <<ch, FALSE>>), DrvCall("Configure", TRUE)>>,
             failAt)

PatternEnable ==
    /\ ~aborted
    /\ Idle
    /\ \E channel \in ChannelArgs, failAt \in FailPoints(2) :
         LET r == patternImpl_Enable(channel, failAt)
         IN opLast' = [inst |-> "pattern", op |-> "Enable", channel |-> channel,
                       calls |-> r.calls, err |-> r.err, panicked |-> FALSE]
    /\ UNCHANGED <<inflight, toolLast, aio, dmm, aborted, sessionVars, spiVars,
                   staticVars, acqVars>>

PatternDisable ==
    /\ ~aborted
    /\ Idle
    /\ \E channel \in ChannelArgs, failAt \in FailPoints(2) :
         LET r == patternImpl_Disable(channel, failAt)
         IN opLast' = [inst |-> "pattern", op |-> "Disable", channel |-> channel,
                       calls |-> r.calls, err |-> r.err, panicked |-> FALSE]
    /\ UNCHANGED <<inflight, toolLast, aio, dmm, aborted, sessionVars, spiVars,
                   staticVars, acqVars>>

\* ------------------------------------------------------------------------
\* I2C (src/dwf/device.go:1106-1197)
\* ------------------------------------------------------------------------

\* First and last address Scan probes (0x08, 0x77).
ScanFirst == 8
ScanLast == 119

\* Buses a Scan meets, each the set of addresses that ACK: an empty bus,
\* {0x20, 0x50, 0x68}, devices at both ends of the scanned range, devices
\* just outside it.
Buses == {{}, {32, 80, 104}, {8, 119}, {7, 120}}

\* Probes of a Scan whose failure the model draws (0: none fails).
ScanFailures == {0, 1, 2, 57, 112}

\* 7-bit addresses the callers pass to Read, Write and Exchange.
I2cAddresses == {8, 80, 127}

\* Largest payload / receive count a caller passes.
MaxI2cLen == 2

\* NAK values the driver reports: 0 is an ACK, n > 0 the index of the NAK.
NakValues == {0, 1, 2}

\* dwfDigitalI2cRead / Write / WriteRead(h, address, ...) as called by the
\* instrument: address is the value passed, wire the C.uchar the binding
\* makes of it.
I2cCall(fn, address, ntx, nrx, ok) ==
    [fn |-> fn, address |-> address, wire |-> address % 256,
     ntx |-> ntx, nrx |-> nrx, ok |-> ok]

\* A plausible slip: the scan loop stops before its last address.
i2cImpl_Scan_exclusive(bus, failAt) ==
    LET addrs == [i \in 1..(ScanLast - ScanFirst) |-> ScanFirst + i - 1]
        failed == failAt \in 1..Len(addrs)
        n == IF failed THEN failAt ELSE Len(addrs)
    IN [calls |-> [i \in 1..n |-> I2cCall("Write", addrs[i] * 2, 0, 0, i # failAt)],
        data |-> IF failed THEN <<>> ELSE SelectSeq(addrs, LAMBDA a : a \in bus),
        err |-> IF failed THEN "driver" ELSE Nil]

\* i2cImpl.Scan(): addrs are the addresses the loop visits, in its order;
\* a probe is a zero-length write to addr << 1; the probe that fails
\* (failAt, 0 if none) returns (nil, err); a probe with NAK 0 appends its
\* address to the list.
i2cImpl_Scan(bus, failAt) ==
    LET addrs == [i \in 1..(ScanLast - ScanFirst + 1) |-> ScanFirst + i - 1]
        failed == failAt \in 1..Len(addrs)
        n == IF failed THEN failAt ELSE Len(addrs)
    IN [calls |-> [i \in 1..n |-> I2cCall("Write", addrs[i] * 2, 0, 0, i # failAt)],
        data |-> IF failed THEN <<>> ELSE SelectSeq(addrs, LAMBDA a : a \in bus),
        err |-> IF failed THEN "driver" ELSE Nil]

I2cScan ==
    /\ ~aborted
    /\ Idle
    /\ \E bus \in Buses, failAt \in (IF handle = 0 THEN {1} ELSE ScanFailures) :
         LET r == i2cImpl_Scan(bus, failAt)
         IN opLast' = [inst |-> "i2c", op |-> "Scan", bus |-> bus,
                       calls |-> r.calls, hasData |-> (r.err = Nil),
                       data |-> r.data, err |-> r.err, panicked |-> FALSE]
    /\ UNCHANGED <<inflight, toolLast, aio, dmm, aborted, sessionVars, spiVars, staticVars, acqVars>>

\* A plausible slip: a bus-clear result of zero is taken for success.
i2cImpl_Open_noLockup(failAt, nak, wOk) ==
    LET out == Issue(<<DrvCall("Reset", 0), DrvCall("StretchSet", 0),
                       DrvCall("RateSet", 0), DrvCall("SclSet", 1),
                       DrvCall("SdaSet", 0), DrvCall("Clear", nak)>>, failAt)
    IN IF out.err # Nil THEN out
       ELSE [calls |-> Append(out.calls, I2cCall("Write", 0, 0, 0, wOk)),
             err |-> Nil, panicked |-> FALSE]

\* i2cImpl.Open(cfg): nak is the result of the bus clear; the result of
\* the closing zero-length write to address 0 is dropped.
i2cImpl_Open(failAt, nak, wOk) ==
    LET out == Issue(<<DrvCall("Reset", 0), DrvCall("StretchSet", 0),
                       DrvCall("RateSet", 0), DrvCall("SclSet", 1),
                       DrvCall("SdaSet", 0), DrvCall("Clear", nak)>>, failAt)
    IN IF out.err # Nil THEN out
       ELSE IF nak = 0
            THEN [calls |-> out.calls, err |-> "lockup", panicked |-> FALSE]
       ELSE [calls |-> Append(out.calls, I2cCall("Write", 0, 0, 0, wOk)),
             err |-> Nil, panicked |-> FALSE]

I2cOpen ==
    /\ ~aborted
    /\ Idle
    /\ \E failAt \in FailPoints(6), nak \in NakValues, wOk \in DriverResults :
         LET r == i2cImpl_Open(failAt, nak, wOk)
         IN opLast' = [inst |-> "i2c", op |-> "Open",
                       calls |-> r.calls, hasData |-> FALSE, data |-> <<>>,
                       err |-> r.err, panicked |-> FALSE]
    /\ UNCHANGED <<inflight, toolLast, aio, dmm, aborted, sessionVars, spiVars, staticVars, acqVars>>

\* The result of an I2C transfer: the driver calls issued, the data
\* returned (hasData: a non-nil buffer), the error ("driver" for a failed
\* call, "nak" with the index in nak), or a panic.
I2cResult(calls, hasData, data, err, nak, panicked) ==
    [calls |-> calls, hasData |-> hasData, data |-> data, err |-> err,
     nak |-> nak, panicked |-> panicked]

\* A plausible slip: the buffer is dropped when the device NAKs.
i2cImpl_Read_dropsData(count, address, ok, nak, fill) ==
    IF count <= 0 THEN I2cResult(<<>>, FALSE, <<>>, Nil, 0, TRUE)
    ELSE IF ~ok
         THEN I2cResult(<<I2cCall("Read", address * 2, 0, count, FALSE)>>,
                        FALSE, <<>>, "driver", 0, FALSE)
    ELSE IF nak # 0
         THEN I2cResult(<<I2cCall("Read", address * 2, 0, count, TRUE)>>,
                        FALSE, <<>>, "nak", nak, FALSE)
    ELSE I2cResult(<<I2cCall("Read", address * 2, 0, count, TRUE)>>,
                   TRUE, RxBuffer(count, fill), Nil, 0, FALSE)

\* i2cImpl.Read(count, address): make([]byte, count) panics on a negative
\* count and the binding's &buf[0] on an empty buffer, before the C call.
i2cImpl_Read(count, address, ok, nak, fill) ==
    IF count <= 0 THEN I2cResult(<<>>, FALSE, <<>>, Nil, 0, TRUE)
    ELSE IF ~ok
         THEN I2cResult(<<I2cCall("Read", address * 2, 0, count, FALSE)>>,
                        FALSE, <<>>, "driver", 0, FALSE)
    ELSE IF nak # 0
         THEN I2cResult(<<I2cCall("Read", address * 2, 0, count, TRUE)>>,
                        TRUE, RxBuffer(count, fill), "nak", nak, FALSE)
    ELSE I2cResult(<<I2cCall("Read", address * 2, 0, count, TRUE)>>,
                   TRUE, RxBuffer(count, fill), Nil, 0, FALSE)

\* i2cImpl.Write(data, address) with len(data) = n.  Write returns an error
\* only; the binding passes a nil pointer for an empty payload.
i2cImpl_Write(n, address, ok, nak) ==
    IF ~ok
    THEN I2cResult(<<I2cCall("Write", address * 2, n, 0, FALSE)>>,
                   FALSE, <<>>, "driver", 0, FALSE)
    ELSE IF nak # 0
         THEN I2cResult(<<I2cCall("Write", address * 2, n, 0, TRUE)>>,
                        FALSE, <<>>, "nak", nak, FALSE)
    ELSE I2cResult(<<I2cCall("Write", address * 2, n, 0, TRUE)>>,
                   FALSE, <<>>, Nil, 0, FALSE)

\* i2cImpl.Exchange(txData, rxCount, address) with len(txData) = ntx: the
\* binding evaluates &txData[0] and &rxBuf[0] before the C call.
i2cImpl_Exchange(ntx, rxCount, address, ok, nak, fill) ==
    IF ntx <= 0 \/ rxCount <= 0 THEN I2cResult(<<>>, FALSE, <<>>, Nil, 0, TRUE)
    ELSE IF ~ok
         THEN I2cResult(<<I2cCall("WriteRead", address * 2, ntx, rxCount, FALSE)>>,
                        FALSE, <<>>, "driver", 0, FALSE)
    ELSE IF nak # 0
         THEN I2cResult(<<I2cCall("WriteRead", address * 2, ntx, rxCount, TRUE)>>,
                        TRUE, RxBuffer(rxCount, fill), "nak", nak, FALSE)
    ELSE I2cResult(<<I2cCall("WriteRead", address * 2, ntx, rxCount, TRUE)>>,
                   TRUE, RxBuffer(rxCount, fill), Nil, 0, FALSE)

\* The state change common to the three I2C transfers.
I2cEffect(op, address, r) ==
    /\ opLast' = [inst |-> "i2c", op |-> op, address |-> address,
                  calls |-> r.calls, hasData |-> r.hasData, data |-> r.data,
                  err |-> r.err, nak |-> r.nak, panicked |-> r.panicked]
    /\ aborted' = r.panicked

I2cDone(op, address, r) ==
    /\ I2cEffect(op, address, r)
    /\ UNCHANGED <<inflight, toolLast, aio, dmm, sessionVars, spiVars, staticVars, acqVars>>

I2cRead ==
    /\ ~aborted
    /\ Idle
    /\ \E count \in 0..MaxI2cLen, address \in I2cAddresses, ok \in DriverResults,
          nak \in NakValues, fill \in RxBytes :
         I2cDone("Read", address, i2cImpl_Read(count, address, ok, nak, fill))

I2cWrite ==
    /\ ~aborted
    /\ Idle
    /\ \E n \in 0..MaxI2cLen, address \in I2cAddresses, ok \in DriverResults,
          nak \in NakValues :
         I2cDone("Write", address, i2cImpl_Write(n, address, ok, nak))

I2cExchange ==
    /\ ~aborted
    /\ Idle
    /\ \E ntx \in 0..MaxI2cLen, rxCount \in 0..MaxI2cLen, address \in I2cAddresses,
          ok \in DriverResults, nak \in NakValues, fill \in RxBytes :
         I2cDone("Exchange", address,
                 i2cImpl_Exchange(ntx, rxCount, address, ok, nak, fill))

\* ------------------------------------------------------------------------
\* UART (src/dwf/device.go:953-1010)
\* ------------------------------------------------------------------------

\* Receive buffer size of Read when the device info gives none.
DefaultUartBuf == 8192

\* Most bytes one receive call delivers.
MaxUartLen == 2

\* Fault indicators FDwfDigitalUartRx reports: negative for an overflow,
\* positive for the index of a parity fault, zero for none.
ParityValues == {-1, 0, 1, 2}

\* The result of a UART operation.
UartResult(calls, hasData, data, err, index, panicked) ==
    [calls |-> calls, hasData |-> hasData, data |-> data, err |-> err,
     index |-> index, panicked |-> panicked]

\* uartImpl.Open(cfg): after the six settings the results of an empty
\* transmit and of dwfDigitalUartRx(h, 0) are dropped; in the latter the
\* binding evaluates &buf[0] on make([]C.char, 0) before the C call.
uartImpl_Open(failAt, txOk) ==
    LET out == Issue(<<DrvCall("RateSet", 0), DrvCall("TxSet", 0),
                       DrvCall("RxSet", 1), DrvCall("BitsSet", 8),
                       DrvCall("ParitySet", 0), DrvCall("StopSet", 1)>>, failAt)
    IN IF out.err # Nil
       THEN UartResult(out.calls, FALSE, <<>>, out.err, 0, FALSE)
       ELSE UartResult(Append(out.calls, [fn |-> "Tx", arg |-> 0, ok |-> txOk]),
                       FALSE, <<>>, Nil, 0, TRUE)

\* A plausible slip: an overflow drops what was received.
uartImpl_Read_dropsOnOverflow(ok, parity, received) ==
    LET maxBuf == IF info.cached /\ info.MaxAnalogInBufferSize > 0
                  THEN info.MaxAnalogInBufferSize
                  ELSE DefaultUartBuf
        call == [fn |-> "Rx", arg |-> maxBuf, ok |-> ok]
    IN IF ~ok THEN UartResult(<<call>>, FALSE, <<>>, "driver", 0, FALSE)
       ELSE IF parity < 0
            THEN UartResult(<<call>>, FALSE, <<>>, "overflow", 0, FALSE)
       ELSE IF parity > 0
            THEN UartResult(<<call>>, TRUE, received, "parity", parity, FALSE)
       ELSE UartResult(<<call>>, TRUE, received, Nil, 0, FALSE)

\* uartImpl.Read(): received is what the driver delivered, parity its
\* fault indicator.
uartImpl_Read(ok, parity, received) ==
    LET maxBuf == IF info.cached /\ info.MaxAnalogInBufferSize > 0
                  THEN info.MaxAnalogInBufferSize
                  ELSE DefaultUartBuf
        call == [fn |-> "Rx", arg |-> maxBuf, ok |-> ok]
    IN IF ~ok THEN UartResult(<<call>>, FALSE, <<>>, "driver", 0, FALSE)
       ELSE IF parity < 0
            THEN UartResult(<<call>>, TRUE, received, "overflow", 0, FALSE)
       ELSE IF parity > 0
            THEN UartResult(<<call>>, TRUE, received, "parity", parity, FALSE)
       ELSE UartResult(<<call>>, TRUE, received, Nil, 0, FALSE)

\* uartImpl.Write(data) with len(data) = n.
uartImpl_Write(n, ok) ==
    UartResult(<<[fn |-> "Tx", arg |-> n, ok |-> ok]>>, FALSE, <<>>,
               IF ok THEN Nil ELSE "driver", 0, FALSE)

\* The state change common to the UART operations; parity is the fault
\* indicator the driver gave, where the operation asked for one.
UartEffect(op, parity, r) ==
    /\ opLast' = [inst |-> "uart", op |-> op, parity |-> parity,
                  calls |-> r.calls, hasData |-> r.hasData, data |-> r.data,
                  err |-> r.err, index |-> r.index, panicked |-> r.panicked]
    /\ aborted' = r.panicked

UartDone(op, parity, r) ==
    /\ UartEffect(op, parity, r)
    /\ UNCHANGED <<inflight, toolLast, aio, dmm, sessionVars, spiVars, staticVars, acqVars>>

UartOpen ==
    /\ ~aborted
    /\ Idle
    /\ \E failAt \in FailPoints(6), txOk \in DriverResults :
         UartDone("Open", 0, uartImpl_Open(failAt, txOk))

UartRead ==
    /\ ~aborted
    /\ Idle
    /\ \E ok \in DriverResults, parity \in ParityValues,
          count \in 0..MaxUartLen, fill \in RxBytes :
         UartDone("Read", parity, uartImpl_Read(ok, parity, RxBuffer(count, fill)))

UartWrite ==
    /\ ~aborted
    /\ Idle
    /\ \E n \in 0..MaxUartLen, ok \in DriverResults :
         UartDone("Write", 0, uartImpl_Write(n, ok))

\* ------------------------------------------------------------------------
\* The analog-I/O space of the device (src/unnamed/part_003:389-462)
\* ------------------------------------------------------------------------

\* The channels a device exposes, each with its label and its node names,
\* indexed from zero by the driver.  AD2-like supplies, a bench supply with
\* a DMM, a DMM that lacks the Enable, Range and Meas nodes, and a device
\* that answers to both labels of the positive rail.
AioLayouts ==
    { <<>>,
      << [label |-> "V+",   nodes |-> <<"Enable", "Voltage", "Current">>],
         [label |-> "V-",   nodes |-> <<"Enable", "Voltage">>] >>,
      << [label |-> "p25V", nodes |-> <<"Enable", "Voltage", "Current">>],
         [label |-> "DMM",  nodes |-> <<"Enable", "Mode", "Range", "Meas", "Input">>] >>,
      << [label |-> "DMM",  nodes |-> <<"Mode", "Input">>] >>,
      << [label |-> "V+",   nodes |-> <<"Enable">>],
         [label |-> "p25V", nodes |-> <<"Enable", "Voltage", "Current">>],
         [label |-> "VDD",  nodes |-> <<"Voltage">>] >> }

\* ChannelCount, ChannelName, ChannelInfo and ChannelNodeName of the driver.
ChannelCount == Len(aio)
ChannelName(ch) == aio[ch + 1].label
ChannelInfo(ch) == Len(aio[ch + 1].nodes)
ChannelNodeName(ch, n) == aio[ch + 1].nodes[n + 1]

\* An analog-I/O driver call: the function, the channel and node it names.
AioCall(fn, ch, n) == <<fn, ch, n>>

\* The analog-I/O calls a client can make on the device.
AioCalls ==
    {AioCall("ChannelCount", 0, 0), AioCall("Status", 0, 0),
     AioCall("EnableSet", 0, 0)}
    \cup {AioCall(fn, ch, 0) : fn \in {"ChannelName", "ChannelInfo"},
                               ch \in 0..(ChannelCount - 1)}
    \cup UNION {{AioCall(fn, ch, n) : fn \in {"NodeName", "NodeSet", "NodeStatus"},
                                      n \in 0..(ChannelInfo(ch) - 1)} :
                ch \in 0..(ChannelCount - 1)}

\* The calls that fail during one operation: none or any one of them, each
\* time it is made.  Every call fails on the zero handle.
AioFailures == {{}} \cup {{c} : c \in AioCalls}

Fails(failing, c) == handle = 0 \/ c \in failing

\* The record of a call in the log of an operation.
AioDone(failing, c) ==
    [fn |-> c[1], ch |-> c[2], node |-> c[3], ok |-> ~Fails(failing, c)]

\* ------------------------------------------------------------------------
\* DMM (src/dwf/device.go:516-620)
\* ------------------------------------------------------------------------

Min(S) == CHOOSE x \in S : \A y \in S : x <= y
Max(S) == CHOOSE x \in S : \A y \in S : x >= y

\* The fields of dmmImpl with channel and every node unresolved.  opened
\* records how the last Open or Close ended: "never" before the first,
\* "yes" when Open returned nil, "failed" when it returned an error,
\* "closed" after Close.
DmmUnresolved ==
    [opened |-> "failed", channel |-> -1, enable |-> -1, mode |-> -1,
     rangN |-> -1, meas |-> -1, input |-> -1]

\* The result of a DMM operation: the driver calls issued, the fields of
\* dmmImpl afterwards, the error ("driver" for a failed call), and whether a
\* measured value is returned.
DmmResult(calls, fields, err, hasValue) ==
    [calls |-> calls, fields |-> fields, err |-> err, hasValue |-> hasValue]

\* dmmImpl.Open without the reset of channel and nodes when no channel
\* named "DMM" is found.
dmmImpl_Open_keepsNodes(failing) ==
    LET count == AioCall("ChannelCount", 0, 0)
        names == [i \in 1..ChannelCount |->
                    AioDone(failing, AioCall("ChannelName", i - 1, 0))]
    IN IF Fails(failing, count)
       THEN DmmResult(<<AioDone(failing, count)>>,
                      [dmm EXCEPT !.opened = "failed"], "driver", FALSE)
       ELSE DmmResult(<<AioDone(failing, count)>> \o names,
                      [dmm EXCEPT !.opened = "failed"], "DMM not available", FALSE)

\* dmmImpl.Open: resets channel and nodes to -1, takes the first channel
\* whose name is read and equals "DMM", resolves its nodes by name (a node
\* whose name cannot be read is skipped, a later node of the same name
\* replaces an earlier one), and enables the DMM when it has an Enable node.
dmmImpl_Open(failing) ==
    LET count == AioCall("ChannelCount", 0, 0)
        IsDmm(ch) == /\ ~Fails(failing, AioCall("ChannelName", ch, 0))
                     /\ ChannelName(ch) = "DMM"
        found == {ch \in 0..(ChannelCount - 1) : IsDmm(ch)}
        channel == IF found = {} THEN -1 ELSE Min(found)
        probed == IF channel < 0 THEN ChannelCount ELSE channel + 1
        names == [i \in 1..probed |-> AioDone(failing, AioCall("ChannelName", i - 1, 0))]
        infoCall == AioCall("ChannelInfo", channel, 0)
        nodeCount == ChannelInfo(channel)
        NodeOf(name) ==
            LET S == {n \in 0..(nodeCount - 1) :
                        /\ ~Fails(failing, AioCall("NodeName", channel, n))
                        /\ ChannelNodeName(channel, n) = name}
            IN IF S = {} THEN -1 ELSE Max(S)
        nodeNames == [i \in 1..nodeCount |->
                        AioDone(failing, AioCall("NodeName", channel, i - 1))]
        resolved == [opened |-> "failed", channel |-> channel,
                     enable |-> NodeOf("Enable"), mode |-> NodeOf("Mode"),
                     rangN |-> NodeOf("Range"), meas |-> NodeOf("Meas"),
                     input |-> NodeOf("Input")]
        enableCall == AioCall("NodeSet", channel, resolved.enable)
        head == <<AioDone(failing, count)>> \o names
    IN IF Fails(failing, count)
       THEN DmmResult(<<AioDone(failing, count)>>, DmmUnresolved, "driver", FALSE)
       ELSE IF channel < 0
       THEN DmmResult(head, DmmUnresolved, "DMM not available", FALSE)
       ELSE IF Fails(failing, infoCall)
       THEN DmmResult(head \o <<AioDone(failing, infoCall)>>,
                      [DmmUnresolved EXCEPT !.channel = channel], "driver", FALSE)
       ELSE IF resolved.enable < 0
       THEN DmmResult(head \o <<AioDone(failing, infoCall)>> \o nodeNames,
                      [resolved EXCEPT !.opened = "yes"], Nil, FALSE)
       ELSE DmmResult(head \o <<AioDone(failing, infoCall)>> \o nodeNames
                           \o <<AioDone(failing, enableCall)>>,
                      IF Fails(failing, enableCall)
                      THEN resolved ELSE [resolved EXCEPT !.opened = "yes"],
                      IF Fails(failing, enableCall) THEN "driver" ELSE Nil, FALSE)

\* The writes of Measure: the Input, Mode and Range nodes whose index is not
\* negative, in this order.
MeasureWrites(f) ==
    (IF f.input >= 0 THEN <<AioCall("NodeSet", f.channel, f.input)>> ELSE <<>>)
    \o (IF f.mode >= 0 THEN <<AioCall("NodeSet", f.channel, f.mode)>> ELSE <<>>)
    \o (IF f.rangN >= 0 THEN <<AioCall("NodeSet", f.channel, f.rangN)>> ELSE <<>>)

\* dmmImpl.Measure with the status refresh made before the writes.
dmmImpl_Measure_refreshFirst(f, failAt) ==
    LET planned == <<AioCall("Status", 0, 0)>> \o MeasureWrites(f)
                   \o (IF f.meas >= 0
                       THEN <<AioCall("NodeStatus", f.channel, f.meas)>> ELSE <<>>)
        m == IF failAt \in 1..Len(planned) THEN failAt ELSE Len(planned)
        calls == [i \in 1..m |-> [fn |-> planned[i][1], ch |-> planned[i][2],
                                  node |-> planned[i][3], ok |-> (i # failAt)]]
    IN IF failAt \in 1..Len(planned)
       THEN DmmResult(calls, f, "driver", FALSE)
       ELSE IF f.meas >= 0
       THEN DmmResult(calls, f, Nil, TRUE)
       ELSE DmmResult(calls, f, "DMM measurement node not found", FALSE)

\* dmmImpl.Measure: the writes, the status refresh and the read of the Meas
\* node, up to the first call that fails (failAt, 0 when none does).
dmmImpl_Measure(f, failAt) ==
    LET planned == MeasureWrites(f) \o <<AioCall("Status", 0, 0)>>
                   \o (IF f.meas >= 0
                       THEN <<AioCall("NodeStatus", f.channel, f.meas)>> ELSE <<>>)
        m == IF failAt \in 1..Len(planned) THEN failAt ELSE Len(planned)
        calls == [i \in 1..m |-> [fn |-> planned[i][1], ch |-> planned[i][2],
                                  node |-> planned[i][3], ok |-> (i # failAt)]]
    IN IF failAt \in 1..Len(planned)
       THEN DmmResult(calls, f, "driver", FALSE)
       ELSE IF f.meas >= 0
       THEN DmmResult(calls, f, Nil, TRUE)
       ELSE DmmResult(calls, f, "DMM measurement node not found", FALSE)

\* dmmImpl.Close: disables the DMM when it has an Enable node, ignoring the
\* result, and returns the result of the analog-I/O reset.
dmmImpl_Close(f, enOk, resetOk) ==
    DmmResult((IF f.enable >= 0
               THEN <<[fn |-> "NodeSet", ch |-> f.channel, node |-> f.enable,
                       ok |-> enOk]>>
               ELSE <<>>)
              \o <<[fn |-> "Reset", ch |-> 0, node |-> 0, ok |-> resetOk]>>,
              [f EXCEPT !.opened = "closed"],
              IF resetOk THEN Nil ELSE "driver", FALSE)

\* The handlers of the DMM tools.
DmmDone(op, r) ==
    /\ opLast' = [inst |-> "dmm", op |-> op, before |-> dmm, calls |-> r.calls,
                  err |-> r.err, hasValue |-> r.hasValue, panicked |-> FALSE]
    /\ dmm' = r.fields
    /\ UNCHANGED <<inflight, toolLast, aio, aborted, sessionVars, spiVars, staticVars, acqVars>>

DmmOpen ==
    /\ ~aborted
    /\ Idle
    /\ \E failing \in AioFailures : DmmDone("Open", dmmImpl_Open(failing))

DmmMeasure ==
    /\ ~aborted
    /\ Idle
    /\ \E failAt \in FailPoints(5) : DmmDone("Measure", dmmImpl_Measure(dmm, failAt))

DmmClose ==
    /\ ~aborted
    /\ Idle
    /\ \E enOk \in DriverResults, resetOk \in DriverResults :
         DmmDone("Close", dmmImpl_Close(dmm, enOk, resetOk))

\* ------------------------------------------------------------------------
\* Power supplies (src/dwf/device.go:437-514)
\* ------------------------------------------------------------------------

\* posLabels, negLabels and digLabels of Switch, in the order it tries them.
RailLabels ==
    [pos |-> <<"V+", "p25V">>, neg |-> <<"V-", "n25V">>, dig |-> <<"VDD", "p6V">>]

Rails == <<"pos", "neg", "dig">>

\* The nodes Switch sets on each rail, in its order.
RailNodes == <<"Enable", "Voltage", "Current">>

RECURSIVE Concat(_)
Concat(seqs) == IF seqs = <<>> THEN <<>> ELSE Head(seqs) \o Concat(Tail(seqs))

\* supplyImpl.findChannelNode: the first channel whose name is read and
\* equals label, whose node count is read and which has a node whose name
\* is read and equals nodeName; a failed query skips the channel or node,
\* a failed channel count ends the search.
findChannelNode(failing, label, nodeName) ==
    LET count == AioCall("ChannelCount", 0, 0)
        Named(ch) == /\ ~Fails(failing, AioCall("ChannelName", ch, 0))
                     /\ ChannelName(ch) = label
        Listed(ch) == Named(ch) /\ ~Fails(failing, AioCall("ChannelInfo", ch, 0))
        Nodes(ch) == {n \in 0..(ChannelInfo(ch) - 1) :
                        /\ ~Fails(failing, AioCall("NodeName", ch, n))
                        /\ ChannelNodeName(ch, n) = nodeName}
        hits == {ch \in 0..(ChannelCount - 1) : Listed(ch) /\ Nodes(ch) # {}}
        ok == hits # {}
        ch0 == IF ok THEN Min(hits) ELSE -1
        n0 == IF ok THEN Min(Nodes(ch0)) ELSE -1
        visited == IF ok THEN ch0 + 1 ELSE ChannelCount
        Queries(ch) ==
            <<AioDone(failing, AioCall("ChannelName", ch, 0))>>
            \o (IF Named(ch)
                THEN <<AioDone(failing, AioCall("ChannelInfo", ch, 0))>> ELSE <<>>)
            \o (IF Listed(ch)
                THEN [i \in 1..(IF ch = ch0 THEN n0 + 1 ELSE ChannelInfo(ch)) |->
                        AioDone(failing, AioCall("NodeName", ch, i - 1))]
                ELSE <<>>)
    IN IF Fails(failing, count)
       THEN [calls |-> <<AioDone(failing, count)>>, ok |-> FALSE, ch |-> -1, node |-> -1]
       ELSE [calls |-> <<AioDone(failing, count)>>
                       \o Concat([i \in 1..visited |-> Queries(i - 1)]),
             ok |-> ok, ch |-> ch0, node |-> n0]

\* supplyImpl.setNode: writes the node on the channel of the first label
\* for which findChannelNode succeeds, and ignores the result of the write.
setNode(failing, rail, nodeName) ==
    LET labels == RailLabels[rail]
        first == findChannelNode(failing, labels[1], nodeName)
        second == findChannelNode(failing, labels[2], nodeName)
        Set(r) == AioDone(failing, AioCall("NodeSet", r.ch, r.node))
                  @@ [rail |-> rail, name |-> nodeName]
    IN IF first.ok THEN first.calls \o <<Set(first)>>
       ELSE IF second.ok THEN first.calls \o second.calls \o <<Set(second)>>
       ELSE first.calls \o second.calls

\* supplyImpl.Switch giving up, without the master enable, at the first
\* node it cannot resolve.
supplyImpl_Switch_strict(failing) ==
    LET master == AioCall("EnableSet", 0, 0)
        Sets(i) == setNode(failing, Rails[((i - 1) \div 3) + 1],
                           RailNodes[((i - 1) % 3) + 1])
        missing == {i \in 1..9 : CallsTo(Sets(i), "NodeSet") = <<>>}
    IN IF missing # {}
       THEN [calls |-> Concat([i \in 1..Min(missing) |-> Sets(i)]), err |-> "driver"]
       ELSE [calls |-> Concat([i \in 1..9 |-> Sets(i)]) \o <<AioDone(failing, master)>>,
             err |-> IF Fails(failing, master) THEN "driver" ELSE Nil]

\* supplyImpl.Switch: the nine setNode calls, then the master enable, whose
\* result it returns.
supplyImpl_Switch(failing) ==
    LET master == AioCall("EnableSet", 0, 0)
    IN [calls |-> Concat([i \in 1..9 |->
                            setNode(failing, Rails[((i - 1) \div 3) + 1],
                                    RailNodes[((i - 1) % 3) + 1])])
                  \o <<AioDone(failing, master)>>,
        err |-> IF Fails(failing, master) THEN "driver" ELSE Nil]

\* supplyImpl.Close: the analog-I/O reset.
supplyImpl_Close(ok) ==
    [calls |-> <<[fn |-> "Reset", ch |-> 0, node |-> 0, ok |-> ok]>>,
     err |-> IF ok THEN Nil ELSE "driver"]

\* The handlers of the supply tools.
SupplyDone(op, failing, r) ==
    /\ opLast' = [inst |-> "supply", op |-> op, failing |-> failing,
                  calls |-> r.calls, err |-> r.err, panicked |-> FALSE]
    /\ UNCHANGED <<inflight, toolLast, aio, dmm, aborted, sessionVars, spiVars, staticVars, acqVars>>

SupplySwitch ==
    /\ ~aborted
    /\ Idle
    /\ \E failing \in AioFailures :
         SupplyDone("Switch", failing, supplyImpl_Switch(failing))

SupplyClose ==
    /\ ~aborted
    /\ Idle
    /\ \E ok \in DriverResults : SupplyDone("Close", {}, supplyImpl_Close(ok))

\* ------------------------------------------------------------------------
\* Tool handlers (src/server/handlers.go)
\* ------------------------------------------------------------------------

\* Longest "data" argument of a write tool, in characters.
MaxHexLen == 2

\* The characters of a "data" argument: a hexadecimal digit and a
\* character that is none.
PayloadChars == {"a", "g"}

\* The "data" arguments of the write tools.
HexPayloads == UNION {[1..n -> PayloadChars] : n \in 0..MaxHexLen}

\* encoding/hex fromHexChar: the value of a digit, -1 for any other byte.
fromHexChar(c) ==
    IF c = "0" THEN 0 ELSE IF c = "a" THEN 10 ELSE IF c = "F" THEN 15 ELSE -1

\* hex.DecodeString that takes any byte for a digit and drops an odd one.
hex_DecodeString_lenient(str) ==
    [bytes |-> [i \in 1..(Len(str) \div 2) |-> 0], err |-> Nil]

\* hex.DecodeString: two digits per byte; a byte that is no digit, or an
\* odd number of them, is an error.
hex_DecodeString(str) ==
    LET pairs == Len(str) \div 2
        bad == {i \in 1..Len(str) : fromHexChar(str[i]) < 0}
    IN IF bad # {} \/ Len(str) % 2 = 1
       THEN [bytes |-> <<>>, err |-> "invalid hex data"]
       ELSE [bytes |-> [i \in 1..pairs |->
                          16 * fromHexChar(str[2 * i - 1]) + fromHexChar(str[2 * i])],
             err |-> Nil]

\* errResult(err): a tool result flagged as an error, with the error's text.
errResult(err) == [isError |-> TRUE, text |-> err]

\* A handler that reports success whenever the instrument returned data.
HandlerReturn_dataWins(tool, payload, out) ==
    [tool |-> tool, payload |-> payload, called |-> TRUE, calls |-> out.calls,
     instErr |-> out.err,
     result |-> IF out.err # Nil /\ ~out.hasData
                THEN errResult(out.err) ELSE [isError |-> FALSE, text |-> "ok"],
     goErr |-> Nil]

\* What every handler does with what the instrument returned:
\* if err != nil { return errResult(err), nil }; return <success>, nil.
HandlerReturn(tool, payload, out) ==
    [tool |-> tool, payload |-> payload, called |-> TRUE, calls |-> out.calls,
     instErr |-> out.err,
     result |-> IF out.err # Nil
                THEN errResult(out.err) ELSE [isError |-> FALSE, text |-> "ok"],
     goErr |-> Nil]

\* The write handlers when hex.DecodeString fails: they return before the
\* instrument is called.
HandlerRejects(tool, payload, err) ==
    /\ toolLast' = [tool |-> tool, payload |-> payload, called |-> FALSE,
                    calls |-> <<>>, instErr |-> Nil, result |-> errResult(err),
                    goErr |-> Nil]
    /\ UNCHANGED <<inflight, opLast, aio, dmm, aborted, sessionVars, spiVars, staticVars, acqVars>>

handleSPIWrite ==
    /\ ~aborted
    /\ \E dataHex \in HexPayloads, cs \in {0}, aOk, tOk, dOk \in DriverResults :
         LET d == hex_DecodeString(dataHex)
             out == spiImpl_Write(Len(d.bytes), cs, aOk, tOk, dOk)
         IN IF d.err # Nil
            THEN HandlerRejects("spi_write", dataHex, d.err)
            ELSE /\ SpiEffect("Write", cs, out)
                 /\ toolLast' = HandlerReturn("spi_write", dataHex,
                                              [out EXCEPT !.data = <<>>] @@ [hasData |-> FALSE])
                 /\ UNCHANGED <<inflight, opLast, aio, dmm, sessionVars, staticVars, acqVars>>

handleI2CWrite ==
    /\ ~aborted
    /\ \E dataHex \in HexPayloads, ok \in DriverResults, nak \in {0, 1} :
         LET d == hex_DecodeString(dataHex)
             out == i2cImpl_Write(Len(d.bytes), 0, ok, nak)
         IN IF d.err # Nil
            THEN HandlerRejects("i2c_write", dataHex, d.err)
            ELSE /\ I2cEffect("Write", 0, out)
                 /\ toolLast' = HandlerReturn("i2c_write", dataHex, out)
                 /\ UNCHANGED <<inflight, aio, dmm, sessionVars, spiVars, staticVars, acqVars>>

handleUARTRead ==
    /\ ~aborted
    /\ \E ok \in DriverResults, parity \in ParityValues :
         LET out == uartImpl_Read(ok, parity, RxBuffer(1, 165))
         IN /\ UartEffect("Read", parity, out)
            /\ toolLast' = HandlerReturn("uart_read", <<>>, out)
            /\ UNCHANGED <<inflight, aio, dmm, sessionVars, spiVars, staticVars, acqVars>>

\* ------------------------------------------------------------------------
\* Requests served at the same time (src/unnamed/part_001:12-38,
\* src/main.go:43-99, src/server/handlers.go)
\* ------------------------------------------------------------------------

\* Two requests the transport hands to the server at the same time, each
\* in its own goroutine.
Requests == {1, 2}

\* A handler is entered: it calls its instrument at once; neither the
\* server, nor the handler, nor the Device takes a lock.  The request is an
\* SPI write of one byte or an I2C open, with the results its driver calls
\* are going to have.
RequestArrives(r) ==
    /\ ~aborted
    /\ inflight[r].tool = "none"
    /\ \E cs \in CsLines, aOk, tOk, dOk \in DriverResults,
          failAt \in FailPoints(6), tool \in {"spi_write", "i2c_open"} :
         inflight' = [inflight EXCEPT ![r] =
            [tool |-> tool, issued |-> 0,
             planned |-> IF tool = "spi_write"
                         THEN spiImpl_Write(1, cs, aOk, tOk, dOk).calls
                         ELSE i2cImpl_Open(failAt, 1, TRUE).calls]]
    /\ UNCHANGED <<opLast, aio, dmm, toolLast, aborted, sessionVars, spiVars,
                   staticVars, acqVars>>

\* The handler of request r makes its next driver call.
DriverCall(r) ==
    /\ ~aborted
    /\ inflight[r].tool # "none"
    /\ inflight[r].issued < Len(inflight[r].planned)
    /\ LET c == inflight[r].planned[inflight[r].issued + 1]
       IN csLevel' = [l \in CsLines |-> LevelAfter(csLevel[l], l, <<c>>)]
    /\ inflight' = [inflight EXCEPT ![r].issued = @ + 1]
    /\ UNCHANGED <<opLast, aio, dmm, toolLast, aborted, sessionVars, spiLast,
                   staticVars, acqVars>>

\* The handler of request r returns its result.
RequestReturns(r) ==
    /\ ~aborted
    /\ inflight[r].tool # "none"
    /\ inflight[r].issued = Len(inflight[r].planned)
    /\ inflight' = [inflight EXCEPT ![r] = [tool |-> "none"]]
    /\ UNCHANGED <<opLast, aio, dmm, toolLast, aborted, sessionVars, spiVars,
                   staticVars, acqVars>>

\* ------------------------------------------------------------------------
\* Waveform generator (src/dwf/device.go:376-435)
\* ------------------------------------------------------------------------

\* WavegenConfig values the callers pass: both channels, a standard and the
\* custom function, the latter with and without data.
WavegenConfigs ==
    [Channel : {1, 2}, Function : {"sine", "custom"}, DataLen : {0, 2},
     Frequency : {1000}, Amplitude : {2}, Offset : {1}, Symmetry : {50},
     RunTime : {0, 5}, Wait : {3}, Repeat : {4}]

\* wavegenImpl.Generate that goes on after a failed call.
wavegenImpl_Generate_goesOn(cfg, failAt) ==
    LET ch == cfg.Channel - 1
        planned == <<DrvCall("NodeEnableSet", <<ch, TRUE>>),
                     DrvCall("NodeFunctionSet", <<ch, cfg.Function>>),
                     DrvCall("NodeFrequencySet", <<ch, cfg.Frequency>>),
                     DrvCall("Configure", <<ch, TRUE>>)>>
    IN [calls |-> [i \in 1..Len(planned) |->
                     [planned[i] EXCEPT !.ok = (i # failAt)]],
        err |-> IF failAt \in 1..Len(planned) THEN planned[failAt].fn ELSE Nil,
        panicked |-> FALSE]

\* wavegenImpl.Generate(cfg), on the carrier node of channel cfg.Channel - 1.
wavegenImpl_Generate(cfg, failAt) ==
    LET ch == cfg.Channel - 1
    IN Issue(<<DrvCall("NodeEnableSet", <<ch, TRUE>>),
               DrvCall("NodeFunctionSet", <<ch, cfg.Function>>)>>
             \o (IF cfg.Function = "custom" /\ cfg.DataLen > 0
                 THEN <<DrvCall("NodeDataSet", <<ch, cfg.DataLen>>)>>
                 ELSE <<>>)
             \o <<DrvCall("NodeFrequencySet", <<ch, cfg.Frequency>>),
                  DrvCall("NodeAmplitudeSet", <<ch, cfg.Amplitude>>),
                  DrvCall("NodeOffsetSet", <<ch, cfg.Offset>>),
                  DrvCall("NodeSymmetrySet", <<ch, cfg.Symmetry>>),
                  DrvCall("RunSet", <<ch, cfg.RunTime>>),
                  DrvCall("WaitSet", <<ch, cfg.Wait>>),
                  DrvCall("RepeatSet", <<ch, cfg.Repeat>>),
                  DrvCall("Configure", <<ch, TRUE>>)>>,
             failAt)

WavegenGenerate ==
    /\ ~aborted
    /\ Idle
    /\ \E cfg \in WavegenConfigs, failAt \in FailPoints(11) :
         LET r == wavegenImpl_Generate(cfg, failAt)
         IN opLast' = [inst |-> "wavegen", op |-> "Generate", cfg |-> cfg,
                       prev |-> <<opLast.inst, opLast.op>>,
                       calls |-> r.calls, err |-> r.err, panicked |-> FALSE]
    /\ UNCHANGED <<inflight, toolLast, aio, dmm, aborted, sessionVars, spiVars,
                   staticVars, acqVars>>

\* wavegenImpl.Close(channel).
WavegenClose ==
    /\ ~aborted
    /\ Idle
    /\ \E channel \in {1, 2}, ok \in DriverResults :
         opLast' = [inst |-> "wavegen", op |-> "Close", channel |-> channel,
                    prev |-> <<opLast.inst, opLast.op>>,
                    calls |-> <<[fn |-> "Reset", arg |-> channel - 1, ok |-> ok]>>,
                    err |-> IF ok THEN Nil ELSE "Reset", panicked |-> FALSE]
    /\ UNCHANGED <<inflight, toolLast, aio, dmm, aborted, sessionVars, spiVars,
                   staticVars, acqVars>>

\* ------------------------------------------------------------------------
\* Initial state: NewDevice() (src/dwf/device.go:44-58)
\* ------------------------------------------------------------------------

Constructed ==
    /\ aborted = FALSE
    /\ handle = 0
    /\ info = NoInfo
    /\ device = NoDevice
    /\ csLevel = [l \in CsLines |-> 1]
    /\ spiLast = NoOp
    /\ ioEnable = {}
    /\ ioOutput = {}
    /\ ioLast = NoOp
    /\ bufferSize = [e \in Engines |-> 0]
    /\ trigSource = [e \in Engines |-> "unset"]
    /\ devStatus = "ready"
    /\ acq = NoOp
    /\ opLast = [inst |-> "none", op |-> "none"]
    /\ toolLast = [tool |-> "none"]
    /\ inflight = [r \in Requests |-> [tool |-> "none"]]
    /\ dmm = [opened |-> "never", channel |-> 0, enable |-> 0, mode |-> 0,
              rangN |-> 0, meas |-> 0, input |-> 0]

\* Behaviours of the clients of the instruments that use neither an
\* acquisition engine nor the analog-I/O space.
Init == Constructed /\ inUse = "none" /\ aio = <<>>

\* Behaviours of a client of one acquisition engine.
InitAcq == Constructed /\ inUse \in Engines /\ aio = <<>>

\* Behaviours of a client of the supplies or the DMM, on a device with one
\* of the analog-I/O layouts.
InitAio == Constructed /\ inUse = "none" /\ aio \in AioLayouts

NextSPI == DeviceOpen(1) \/ SpiRead \/ SpiWrite \/ SpiExchange

SpecSPI == Init /\ [][NextSPI]_vars

NextStatic ==
    \/ \E k \in 1..MaxEnum : DeviceOpenWith(k, {MaxEnum}, {0})
    \/ SetMode
    \/ SetState

SpecStatic == Init /\ [][NextStatic]_vars

NextAcq ==
    \/ DeviceOpen(1)
    \/ ScopeOpen
    \/ ScopeSetTrigger
    \/ LogicOpen
    \/ LogicSetTrigger
    \/ RecordStart
    \/ RecordPoll
    \/ RecordRead
    \/ DeviceDone
    \/ ScopeClose
    \/ LogicClose

SpecAcq == InitAcq /\ [][NextAcq]_vars

\* A Record that has started keeps running: its loop polls again, and the
\* read follows the loop.  Nothing makes the device finish.
SpecAcqFair == SpecAcq /\ WF_vars(RecordPoll) /\ WF_vars(RecordRead)

NextDMM == DeviceOpen(1) \/ DmmOpen \/ DmmMeasure \/ DmmClose

SpecDMM == InitAio /\ [][NextDMM]_vars

NextServer == DeviceOpen(1) \/ handleSPIWrite \/ handleI2CWrite \/ handleUARTRead

SpecServer == Init /\ [][NextServer]_vars

NextConcurrent ==
    \/ DeviceOpen(1)
    \/ \E r \in Requests : RequestArrives(r)
    \/ \E r \in Requests : DriverCall(r)
    \/ \E r \in Requests : RequestReturns(r)

SpecConcurrent == Init /\ [][NextConcurrent]_vars

NextWavegen == DeviceOpen(1) \/ WavegenGenerate \/ WavegenClose

SpecWavegen == Init /\ [][NextWavegen]_vars

NextSession ==
    \/ \E k \in 1..MaxEnum : DeviceOpenWith(k, k..MaxEnum, OpenConfigs)
    \/ DeviceOpenFails
    \/ DeviceClose
    \/ SupplyClose

SpecSession == Init /\ [][NextSession]_vars

NextSupply == DeviceOpen(1) \/ SupplySwitch \/ SupplyClose

SpecSupply == InitAio /\ [][NextSupply]_vars

NextPattern ==
    \/ DeviceOpen(1)
    \/ PatternGenerate
    \/ PatternEnable
    \/ PatternDisable
    \/ \E inst \in {"pattern", "static", "spi"} : InstrumentClose(inst)

SpecPattern == Init /\ [][NextPattern]_vars

NextI2C ==
    \/ DeviceOpen(1)
    \/ I2cOpen
    \/ I2cScan
    \/ I2cRead
    \/ I2cWrite
    \/ I2cExchange
    \/ InstrumentClose("i2c")

SpecI2C == Init /\ [][NextI2C]_vars

NextUART == DeviceOpen(1) \/ UartOpen \/ UartRead \/ UartWrite \/ InstrumentClose("uart")

SpecUART == Init /\ [][NextUART]_vars

\* ------------------------------------------------------------------------
\* Claims about SPI
\* ------------------------------------------------------------------------

SpiRan == spiLast.op \in {"Read", "Write", "Exchange"}

\* C1: in Read, Write and Exchange, when the select (cs, 0) succeeds and the
\* transfer call then fails, a select (cs, 1) on the same line is issued
\* after it, before the operation returns, and the operation returns the
\* transfer's error and no data.
C1_DeassertOnTransferFailure ==
    (/\ SpiRan
     /\ Len(spiLast.calls) >= 2
     /\ spiLast.calls[1].ok
     /\ ~spiLast.calls[2].ok)
    => /\ Len(spiLast.calls) = 3
       /\ spiLast.calls[3] \in {SelectCall(spiLast.cs, 1, ok) : ok \in BOOLEAN}
       /\ ~spiLast.panicked
       /\ spiLast.err = "transfer"
       /\ spiLast.data = Nil

\* The transfer of an Exchange on line 1 failed, and so did the de-assert
\* that followed it.
C1_Witness ==
    /\ spiLast.op = "Exchange"
    /\ spiLast.cs = 1
    /\ Len(spiLast.calls) = 3
    /\ spiLast.calls[1].ok
    /\ ~spiLast.calls[2].ok
    /\ ~spiLast.calls[3].ok

\* C2: the driver calls of one Read, Write or Exchange are, in this order,
\* select (cs, 0), the transfer, select (cs, 1), all on the cs of the call:
\* one select (cs, 0) comes first, the transfer is issued only after that
\* select succeeded, nothing but the one select (cs, 1) follows the
\* transfer, and an operation that returns after a successful select has
\* issued all three.
C2_CallOrder ==
    SpiRan =>
        LET calls == spiLast.calls
            xfer  == CASE spiLast.op = "Read" -> "read"
                       [] spiLast.op = "Write" -> "write"
                       [] OTHER -> "writeread"
        IN /\ Len(calls) \in 1..3
           /\ calls[1].fn = "select" /\ calls[1].cs = spiLast.cs /\ calls[1].level = 0
           /\ Len(calls) >= 2 => calls[1].ok /\ calls[2].fn = xfer
           /\ Len(calls) = 3 =>
                calls[3].fn = "select" /\ calls[3].cs = spiLast.cs /\ calls[3].level = 1
           /\ Len(calls) # 2
           /\ (calls[1].ok /\ ~spiLast.panicked) => Len(calls) = 3
           /\ ~calls[1].ok => Len(calls) = 1

\* A Write on line 1 that went through all three calls.
C2_Witness ==
    /\ spiLast.op = "Write"
    /\ spiLast.cs = 1
    /\ Len(spiLast.calls) = 3
    /\ spiLast.calls[2].ok
    /\ spiLast.calls[3].ok
    /\ spiLast.err = Nil

\* ------------------------------------------------------------------------
\* Claims about Static I/O
\* ------------------------------------------------------------------------

\* The bits in which two masks differ.
Differ(m1, m2) == (m1 \ m2) \cup (m2 \ m1)

\* C3: for every channel count N, every adjusted channel c in [0, N) and
\* every mask read: after SetMode(c, true) bit c of the mask is set, after
\* SetMode(c, false) it is clear, and every other bit is as it was read.
C3_SetModeFrame ==
    (/\ ioLast.op = "SetMode"
     /\ ioLast.err = Nil
     /\ ioLast.ch \in 0..(ioLast.count - 1))
    => /\ (ioLast.ch \in ioLast.written) = ioLast.on
       /\ Differ(ioLast.read, ioLast.written) \subseteq {ioLast.ch}

\* C4: for every channel argument of SetMode and SetState, in range or not,
\* the mask written differs from the mask read in at most one bit, and for
\* an adjusted channel in [0, channelCount) in no bit but that channel's.
C4_OneBitChanged ==
    (/\ ioLast.op \in {"SetMode", "SetState"}
     /\ ioLast.err # "get")
    => /\ Cardinality(Differ(ioLast.read, ioLast.written)) <= 1
       /\ ioLast.ch \in 0..(ioLast.count - 1)
            => Differ(ioLast.read, ioLast.written) \subseteq {ioLast.ch}

\* ------------------------------------------------------------------------
\* Claims about the acquisition engines
\* ------------------------------------------------------------------------

\* The buffer size limit of the device behind the handle, for engine e.
DeviceMax(e) ==
    IF ~device.attached THEN 0
    ELSE IF e = "scope" THEN device.analogInBuf ELSE device.digitalInBuf

\* C5: after an Open(cfg) of the oscilloscope or the logic analyzer that
\* succeeds, the recorded buffer size is the device's maximum when
\* cfg.BufferSize is 0 or above the maximum and cfg.BufferSize otherwise, it
\* does not exceed that maximum, and a Record reads as many samples as the
\* engine has recorded.
C5_EffectiveBufferSize ==
    /\ (acq.op = "Open" /\ acq.err = Nil) =>
          LET max == DeviceMax(acq.engine)
          IN /\ bufferSize[acq.engine] =
                   IF acq.size = 0 \/ acq.size > max THEN max ELSE acq.size
             /\ bufferSize[acq.engine] <= max
    /\ (acq.op = "Record" /\ acq.read) => acq.count = bufferSize[acq.engine]

\* C6: a Record reads the sample buffer only after its own arm call
\* succeeded and a status poll made after it reported done; a Record that
\* has returned carries either sample data or an error, never both and
\* never neither, and a failed arm call gives an error.
C6_ReadAfterDone ==
    acq.op = "Record" =>
        /\ acq.pc = "read" => acq.armed /\ acq.sawDone
        /\ acq.read => acq.armed /\ acq.sawDone
        /\ acq.hasData => acq.read /\ acq.pc = "returned"
        /\ acq.pc = "returned" => (acq.hasData <=> acq.err = Nil)
        /\ ~acq.hasData => acq.data = <<>>
        /\ (acq.pc = "returned" /\ ~acq.armed) => acq.err = "Configure"

\* A logic Record that polled a device not yet done, then saw done, and
\* returned data.
C6_Witness ==
    /\ acq.op = "Record"
    /\ acq.engine = "logic"
    /\ acq.pc = "returned"
    /\ acq.waited
    /\ acq.hasData
    /\ Len(acq.data) = 2

\* C7: a Record returns only after a poll reported done or a driver call
\* failed, and once the device reports done a Record that is polling
\* returns.
C7_RecordReturns ==
    /\ [](acq.op = "Record" /\ acq.pc = "returned" => acq.sawDone \/ acq.err # Nil)
    /\ (acq.op = "Record" /\ acq.pc = "polling" /\ devStatus = "done")
          ~> (acq.op = "Record" /\ acq.pc = "returned")

\* C8: an enabled logic SetTrigger that programs a prefill q has
\* 0 <= q <= bufferSize and has programmed the position bufferSize - q,
\* whatever buffer size the engine has recorded.
C8_PrefillClamp ==
    (/\ acq.op = "SetTrigger"
     /\ acq.engine = "logic"
     /\ ~acq.disabling
     /\ Len(acq.calls) >= 3)
    => LET q == acq.calls[3].arg
           size == bufferSize["logic"]
       IN /\ acq.calls[3].fn = "TriggerPrefillSet"
          /\ 0 <= q
          /\ q <= size
          /\ acq.calls[2].fn = "TriggerPositionSet"
          /\ acq.calls[2].arg = size - q

\* C9: a disabling SetTrigger (enable false; on the oscilloscope also
\* enable true with source none) issues one driver call and no other, the
\* one that sets the trigger source to none, so the source last written to
\* the engine is none.
C9_DisablingTrigger ==
    (acq.op = "SetTrigger" /\ acq.disabling)
    => /\ Len(acq.calls) = 1
       /\ acq.calls[1].fn = "TriggerSourceSet"
       /\ acq.calls[1].arg = "None"
       /\ trigSource[acq.engine] = "None"
       /\ ~acq.panicked

\* The oscilloscope trigger is disabled after an analog detector trigger
\* had been written.
C9_Witness ==
    /\ acq.op = "SetTrigger"
    /\ acq.engine = "scope"
    /\ acq.disabling
    /\ acq.before = "DetectorAnalogIn"
    /\ acq.err = Nil
    /\ trigSource["scope"] = "None"

\* C10: a logic Record asked for line c in 0..15 returns, in each
\* position, 1 if bit c of the raw word in that position is set and 0 if
\* not, and returns as many samples as the recorded buffer size.
C10_LineExtraction ==
    (/\ acq.op = "Record"
     /\ acq.engine = "logic"
     /\ acq.hasData
     /\ acq.channel \in SampleBits)
    => /\ Len(acq.data) = bufferSize["logic"]
       /\ Len(acq.raw) = Len(acq.data)
       /\ \A i \in 1..Len(acq.data) :
             acq.data[i] = IF acq.channel \in acq.raw[i] THEN {0} ELSE {}

\* Raw 0b1010 then 0x8001, reduced to line 1: 1 then 0.
C10_Witness ==
    /\ acq.op = "Record"
    /\ acq.engine = "logic"
    /\ acq.hasData
    /\ acq.channel = 1
    /\ acq.raw = <<{1, 3}, {0, 15}>>
    /\ acq.data = <<{0}, {}>>

\* ------------------------------------------------------------------------
\* Claims about the pattern generator
\* ------------------------------------------------------------------------

\* s * d / 100 rounded to the nearest integer, halves away from zero.
RoundPercent(s, d) == (2 * s * d + 100) \div 200

\* C11: for a pulse of duty cycle d in [0, 100] and computed step count s,
\* the counters Generate programs satisfy high + low = s and
\* high = round(s * d / 100).
C11_PulseCounters ==
    (/\ opLast.op = "Generate"
     /\ opLast.cfg.DutyCycle \in 0..100
     /\ CallsTo(opLast.calls, "CounterSet") # <<>>)
    => LET c == CallsTo(opLast.calls, "CounterSet")[1].arg
       IN /\ c.high + c.low = opLast.steps
          /\ c.high = RoundPercent(opLast.steps, opLast.cfg.DutyCycle)

\* ------------------------------------------------------------------------
\* Claims about I2C
\* ------------------------------------------------------------------------

\* C12: the probes of a Scan are zero-length writes to (address << 1) for
\* the addresses 0x08, 0x09, ... in ascending order, each once; a Scan that
\* meets no driver failure probes every address up to 0x77 and returns, in
\* ascending order, exactly the addresses of the range that ACK; a failed
\* probe is the last one, and the Scan returns an error and no list.
C12_ScanProbes ==
    opLast.op = "Scan" =>
        LET calls == opLast.calls
            data == opLast.data
        IN /\ \A i \in 1..Len(calls) :
                /\ calls[i].fn = "Write"
                /\ calls[i].address = 2 * (7 + i)
                /\ calls[i].wire = calls[i].address
                /\ calls[i].ntx = 0
                /\ calls[i].ok = (i < Len(calls) \/ opLast.err = Nil)
           /\ Len(calls) <= 112
           /\ opLast.err = Nil =>
                /\ Len(calls) = 112
                /\ {data[i] : i \in 1..Len(data)} = opLast.bus \cap (8..119)
                /\ \A i \in 1..Len(data) : \A j \in 1..Len(data) :
                      i < j => data[i] < data[j]
           /\ opLast.err # Nil => data = <<>>

\* A bus that ACKs only 0x20, 0x50 and 0x68 was scanned without failure.
C12_Witness ==
    /\ opLast.op = "Scan"
    /\ opLast.bus = {32, 80, 104}
    /\ opLast.err = Nil
    /\ opLast.data = <<32, 80, 104>>

\* The order of the calls of I2C Open that can make it fail.
I2cOpenOrder == <<"Reset", "StretchSet", "RateSet", "SclSet", "SdaSet", "Clear">>

\* C13: I2C Open issues reset, clock stretching, rate, SCL, SDA and bus
\* clear in this order and stops at the first of them that fails; it
\* returns the bus-lockup error whenever the bus clear succeeds with result
\* zero, and returns success only when the bus clear succeeded with a
\* non-zero result.
C13_OpenLockup ==
    (opLast.inst = "i2c" /\ opLast.op = "Open") =>
        LET calls == opLast.calls
            n == IF Len(calls) > 6 THEN 6 ELSE Len(calls)
        IN /\ n >= 1
           /\ \A i \in 1..n : calls[i].fn = I2cOpenOrder[i]
           /\ \A i \in 1..(n - 1) : calls[i].ok
           /\ ~calls[n].ok => Len(calls) = n /\ opLast.err = calls[n].fn
           /\ (n = 6 /\ calls[6].ok /\ calls[6].arg = 0) => opLast.err = "lockup"
           /\ opLast.err = Nil => n = 6 /\ calls[6].ok /\ calls[6].arg # 0
           /\ calls[n].ok => n = 6

\* Every call of an Open succeeded and the bus clear reported zero.
C13_Witness ==
    /\ opLast.inst = "i2c"
    /\ opLast.op = "Open"
    /\ Len(opLast.calls) = 6
    /\ opLast.calls[6].ok
    /\ opLast.calls[6].arg = 0
    /\ opLast.err = "lockup"

\* C14: I2C Read, Write and Exchange pass (address << 1) to the driver;
\* when the call succeeds with a non-zero NAK n the operation returns an
\* error naming index n, and Read and Exchange return the receive buffer
\* with it; when the call fails no data is returned.
C14_NakAndData ==
    (opLast.inst = "i2c" /\ opLast.op \in {"Read", "Write", "Exchange"}
     /\ ~opLast.panicked)
    => LET c == opLast.calls[1]
       IN /\ Len(opLast.calls) = 1
          /\ c.address = 2 * opLast.address
          /\ c.wire = c.address
          /\ (c.ok /\ opLast.nak # 0) =>
                /\ opLast.err = "nak"
                /\ opLast.op \in {"Read", "Exchange"} =>
                      opLast.hasData /\ Len(opLast.data) = c.nrx
          /\ opLast.err = "nak" => c.ok /\ opLast.nak # 0
          /\ ~c.ok => opLast.err = "driver" /\ ~opLast.hasData /\ opLast.data = <<>>
          /\ (c.ok /\ opLast.nak = 0) => opLast.err = Nil

\* An Exchange whose device NAKed at index 2 returned its two-byte buffer.
C14_Witness ==
    /\ opLast.inst = "i2c"
    /\ opLast.op = "Exchange"
    /\ opLast.err = "nak"
    /\ opLast.nak = 2
    /\ opLast.hasData
    /\ Len(opLast.data) = 2

\* ------------------------------------------------------------------------
\* Claims about UART
\* ------------------------------------------------------------------------

\* C15: a UART Read whose receive call succeeds returns the received data,
\* with an overflow error for a negative fault indicator, with a parity
\* error referencing offset k for a positive indicator k, and with no
\* error for zero; a Read whose receive call fails returns an error and no
\* data.
C15_ReadFaults ==
    (opLast.inst = "uart" /\ opLast.op = "Read")
    => LET c == opLast.calls[1]
       IN /\ Len(opLast.calls) = 1
          /\ ~opLast.panicked
          /\ c.ok => opLast.hasData
          /\ (c.ok /\ opLast.parity < 0) => opLast.err = "overflow"
          /\ (c.ok /\ opLast.parity > 0) =>
                opLast.err = "parity" /\ opLast.index = opLast.parity
          /\ (c.ok /\ opLast.parity = 0) => opLast.err = Nil
          /\ ~c.ok => opLast.err = "driver" /\ ~opLast.hasData /\ opLast.data = <<>>

\* A Read that overflowed returned the two bytes it had received.
C15_Witness ==
    /\ opLast.inst = "uart"
    /\ opLast.op = "Read"
    /\ opLast.parity < 0
    /\ opLast.err = "overflow"
    /\ opLast.hasData
    /\ Len(opLast.data) = 2

\* ------------------------------------------------------------------------
\* Claims about the DMM
\* ------------------------------------------------------------------------

\* The device has no analog-I/O channel labeled "DMM".
NoDmmChannel == \A i \in 1..Len(aio) : aio[i].label # "DMM"

NodeWrites(calls) == CallsTo(calls, "NodeSet")

\* C16 as stated: on a device with no channel labeled "DMM", Open returns
\* the DMM-unavailable error and writes no node, and Measure after that
\* failed Open writes no node and fails with the measurement-node-missing
\* error.
C16_Unavailable ==
    (opLast.inst = "dmm" /\ NoDmmChannel) =>
        /\ opLast.op = "Open" =>
              /\ opLast.err = "DMM not available"
              /\ NodeWrites(opLast.calls) = <<>>
        /\ (opLast.op = "Measure" /\ opLast.before.opened = "failed") =>
              /\ opLast.err = "DMM measurement node not found"
              /\ NodeWrites(opLast.calls) = <<>>

\* C16 amended: on a device with no channel labeled "DMM", Open writes no
\* node and returns an error, which is the DMM-unavailable error exactly
\* when the channel-count query succeeded and the error of that query
\* otherwise; Measure after that failed Open writes no node, makes the
\* status refresh as its only driver call, returns no measured value and
\* fails, with the measurement-node-missing error exactly when the status
\* refresh succeeded and with the error of the refresh otherwise.
C16_UnavailableOrDriverError ==
    (opLast.inst = "dmm" /\ NoDmmChannel) =>
        /\ opLast.op = "Open" =>
              /\ NodeWrites(opLast.calls) = <<>>
              /\ opLast.calls[1].fn = "ChannelCount"
              /\ opLast.err = IF opLast.calls[1].ok
                               THEN "DMM not available" ELSE "driver"
        /\ (opLast.op = "Measure" /\ opLast.before.opened = "failed") =>
              /\ NodeWrites(opLast.calls) = <<>>
              /\ Len(opLast.calls) = 1
              /\ opLast.calls[1].fn = "Status"
              /\ ~opLast.hasValue
              /\ opLast.err = IF opLast.calls[1].ok
                               THEN "DMM measurement node not found" ELSE "driver"

\* Measure has failed with the measurement-node-missing error after an Open
\* that failed on a device with no channel labeled "DMM".
C16_Witness ==
    /\ opLast.inst = "dmm"
    /\ opLast.op = "Measure"
    /\ NoDmmChannel
    /\ Len(aio) > 0
    /\ opLast.before.opened = "failed"
    /\ opLast.before.channel = -1
    /\ opLast.err = "DMM measurement node not found"

\* C17: after a successful DMM Open, Measure writes the Input, Mode and
\* Range nodes of the DMM channel in this order, each exactly when Open
\* resolved it, then refreshes the status, then reads the Meas node; it
\* stops at the first failing call with that call's error and no value;
\* with every call successful it returns a value when the Meas node was
\* resolved and the measurement-node-missing error and no value otherwise.
C17_MeasureSequence ==
    (opLast.inst = "dmm" /\ opLast.op = "Measure" /\ opLast.before.opened = "yes") =>
        LET f == opLast.before
            Write(n) == IF n >= 0 THEN <<<<"NodeSet", f.channel, n>>>> ELSE <<>>
            expected == Write(f.input) \o Write(f.mode) \o Write(f.rangN)
                        \o << <<"Status", 0, 0>> >>
                        \o (IF f.meas >= 0
                            THEN << <<"NodeStatus", f.channel, f.meas>> >> ELSE <<>>)
            calls == opLast.calls
            k == Len(calls)
        IN /\ k \in 1..Len(expected)
           /\ \A i \in 1..k :
                 /\ <<calls[i].fn, calls[i].ch, calls[i].node>> = expected[i]
                 /\ i < k => calls[i].ok
           /\ ~calls[k].ok => (opLast.err = "driver" /\ ~opLast.hasValue)
           /\ calls[k].ok =>
                 /\ k = Len(expected)
                 /\ IF f.meas >= 0
                    THEN opLast.err = Nil /\ opLast.hasValue
                    ELSE /\ opLast.err = "DMM measurement node not found"
                         /\ ~opLast.hasValue

\* Measure has made all five calls after an Open that resolved the five
\* nodes of the DMM channel.
C17_Witness ==
    /\ opLast.inst = "dmm"
    /\ opLast.op = "Measure"
    /\ opLast.before.opened = "yes"
    /\ Len(opLast.calls) = 5
    /\ opLast.calls[1].node = 4
    /\ opLast.calls[5].fn = "NodeStatus"
    /\ opLast.hasValue

\* ------------------------------------------------------------------------
\* Claims about the power supplies
\* ------------------------------------------------------------------------

\* The channels of the device that carry one of the labels of the rail.
RailChannels(rail) ==
    {ch \in 0..(Len(aio) - 1) :
        \E i \in 1..2 : aio[ch + 1].label = RailLabels[rail][i]}

\* The channels of the rail that have a node of this name.
RailTargets(rail, name) ==
    {ch \in RailChannels(rail) :
        \E n \in 1..Len(aio[ch + 1].nodes) : aio[ch + 1].nodes[n] = name}

\* The writes of a Switch to one node of one rail.
RailWrites(calls, rail, name) ==
    SelectSeq(calls, LAMBDA c : c.fn = "NodeSet" /\ c.rail = rail /\ c.name = name)

\* C18: every Switch ends with the master-enable call, issued once, and
\* returns nil exactly when that call succeeded, whatever the other calls
\* did; a node of a rail that no channel of the device offers is not
\* written; and when no query fails, every node that a channel of the rail
\* offers is written, on each of the three rails.
C18_SwitchAllRails ==
    (opLast.inst = "supply" /\ opLast.op = "Switch") =>
        LET calls == opLast.calls
            k == Len(calls)
            queried == \A i \in 1..k :
                          calls[i].fn \notin {"NodeSet", "EnableSet"} => calls[i].ok
        IN /\ k >= 1
           /\ calls[k].fn = "EnableSet"
           /\ Len(CallsTo(calls, "EnableSet")) = 1
           /\ (opLast.err = Nil) <=> calls[k].ok
           /\ \A r \in {"pos", "neg", "dig"}, nm \in {"Enable", "Voltage", "Current"} :
                 /\ RailTargets(r, nm) = {} => RailWrites(calls, r, nm) = <<>>
                 /\ (queried /\ RailTargets(r, nm) # {}) => RailWrites(calls, r, nm) # <<>>
                 /\ \A i \in 1..Len(RailWrites(calls, r, nm)) :
                       RailWrites(calls, r, nm)[i].ch \in RailTargets(r, nm)

\* Switch has returned nil on a device with no digital rail and no Current
\* node on the negative rail, after five writes of which one failed.
C18_Witness ==
    /\ opLast.inst = "supply"
    /\ opLast.op = "Switch"
    /\ RailChannels("dig") = {}
    /\ RailTargets("neg", "Current") = {}
    /\ Len(NodeWrites(opLast.calls)) = 5
    /\ \E i \in 1..5 : ~NodeWrites(opLast.calls)[i].ok
    /\ opLast.err = Nil

\* The first label of the rail's list that a channel of the device carries
\* (the empty sequence when none does).
FirstLabel(rail) ==
    SelectSeq(RailLabels[rail],
              LAMBDA l : \E i \in 1..Len(aio) : aio[i].label = l)

\* C19: in one Switch, every write of a rail targets a channel labeled
\* with the first label of the rail's list that the device carries, so
\* that no two writes of a rail target channels of different labels, and
\* each node of each rail is written at most once.
C19_OneChannelPerRail ==
    (opLast.inst = "supply" /\ opLast.op = "Switch") =>
        \A r \in {"pos", "neg", "dig"} :
            LET writes == SelectSeq(opLast.calls,
                                    LAMBDA c : c.fn = "NodeSet" /\ c.rail = r)
            IN /\ \A i \in 1..Len(writes) :
                     /\ FirstLabel(r) # <<>>
                     /\ aio[writes[i].ch + 1].label = FirstLabel(r)[1]
               /\ \A i, j \in 1..Len(writes) :
                     writes[i].name = writes[j].name => i = j

\* ------------------------------------------------------------------------
\* Claims about the session
\* ------------------------------------------------------------------------

\* C20: a Close on the zero handle makes no driver call and returns nil; a
\* Close on an open handle makes exactly one driver close call, on that
\* handle, and returns its result; after every Close, failed or not, the
\* handle is zero, so a Close that follows a Close makes no driver call.
C20_CloseIdempotent ==
    (opLast.inst = "device" /\ opLast.op = "Close") =>
        /\ handle = 0
        /\ opLast.before = 0 => (opLast.calls = <<>> /\ opLast.err = Nil)
        /\ opLast.before # 0 =>
              /\ Len(opLast.calls) = 1
              /\ opLast.calls[1].fn = "DeviceClose"
              /\ opLast.calls[1].arg = opLast.before
              /\ (opLast.err = Nil) <=> opLast.calls[1].ok
        /\ opLast.prev = <<"device", "Close">> =>
              (opLast.before = 0 /\ opLast.calls = <<>>)

\* A second Close has returned after a first.
C20_Witness ==
    /\ opLast.inst = "device"
    /\ opLast.op = "Close"
    /\ opLast.prev = <<"device", "Close">>
    /\ info.cached
    /\ opLast.calls = <<>>
    /\ opLast.err = Nil

\* C21: Open calls the enumeration first; when it reports zero devices,
\* Open makes no open attempt and fails with the no-device error; when it
\* reports n > 0, the attempts are on indices 0, 1, ... in this order, all
\* under the requested configuration, every attempt before the last one
\* yields no handle, Open succeeds exactly when the last attempt yields a
\* handle, and it fails with the open error exactly when all n indices
\* were attempted and none yielded a handle.
C21_OpenAttempts ==
    (opLast.inst = "device" /\ opLast.op = "Open") =>
        LET calls == opLast.calls
            attempts == Tail(calls)
            m == Len(attempts)
        IN /\ calls[1].fn = "Enum"
           /\ (calls[1].ok /\ opLast.count = 0) =>
                 (attempts = <<>> /\ opLast.err = "no device")
           /\ \A i \in 1..m :
                 /\ attempts[i].fn = "DeviceConfigOpen"
                 /\ attempts[i].arg = <<i - 1, opLast.config>>
                 /\ i < m => ~attempts[i].ok
           /\ (calls[1].ok /\ opLast.count > 0) =>
                 /\ m \in 1..opLast.count
                 /\ (opLast.err = Nil) <=> attempts[m].ok
                 /\ (opLast.err = "open failed") <=>
                       (m = opLast.count /\ ~attempts[m].ok)
                 /\ opLast.err \in {Nil, "open failed"}

\* Open has succeeded at its second attempt, under configuration 1.
C21_Witness ==
    /\ opLast.inst = "device"
    /\ opLast.op = "Open"
    /\ opLast.err = Nil
    /\ Len(opLast.calls) = 3
    /\ opLast.config = 1
    /\ handle # 0

\* ------------------------------------------------------------------------
\* Claims about failures
\* ------------------------------------------------------------------------

\* C22: an instrument operation made on the zero handle returns an error,
\* returns no data or measured value, and does not abort the process.
C22_NotConnected ==
    (handle = 0 /\ opLast.inst \notin {"none", "device"}) =>
        /\ ~opLast.panicked
        /\ ~aborted
        /\ opLast.err # Nil
        /\ opLast.inst \in {"i2c", "uart"} => ~opLast.hasData
        /\ opLast.inst = "dmm" => ~opLast.hasValue

\* C23: when a driver call of an instrument operation reports failure,
\* the operation returns an error.
C23_FailuresSurfaced ==
    (opLast.inst \notin {"none", "device"} /\ ~opLast.panicked) =>
        ((\E i \in 1..Len(opLast.calls) : ~opLast.calls[i].ok) => opLast.err # Nil)

\* ------------------------------------------------------------------------
\* Claims about the tool handlers
\* ------------------------------------------------------------------------

\* A payload of hexadecimal digits, two per byte.
IsHex(str) ==
    /\ Len(str) % 2 = 0
    /\ \A i \in 1..Len(str) : str[i] \in {"0", "a", "F"}

\* C24: the SPI-write and I2C-write handlers answer a payload that is not
\* valid hexadecimal with an error result and a nil Go error, without
\* calling the instrument: no driver call is made, chip select included.
C24_HexRejected ==
    (toolLast.tool \in {"spi_write", "i2c_write"} /\ ~IsHex(toolLast.payload)) =>
        /\ toolLast.result.isError
        /\ toolLast.result.text # ""
        /\ toolLast.goErr = Nil
        /\ ~toolLast.called
        /\ toolLast.calls = <<>>

\* The SPI-write handler has rejected a payload while the session is open.
C24_Witness ==
    /\ toolLast.tool = "spi_write"
    /\ toolLast.payload = <<"a", "g">>
    /\ handle # 0
    /\ toolLast.result.isError
    /\ spiLast.op = "none"

\* C25: a handler never returns a Go error, and when the instrument call it
\* made returned an error its result is flagged as an error and carries a
\* non-empty message.
C25_ErrorResults ==
    (toolLast.tool # "none" /\ ~aborted) =>
        /\ toolLast.goErr = Nil
        /\ toolLast.instErr # Nil =>
              (toolLast.result.isError /\ toolLast.result.text # "")

\* The UART-read handler has answered a parity fault, for which the
\* instrument returned data and an error, with an error result.
C25_Witness ==
    /\ toolLast.tool = "uart_read"
    /\ toolLast.instErr = "parity"
    /\ opLast.inst = "uart"
    /\ opLast.hasData
    /\ toolLast.result.isError

\* ------------------------------------------------------------------------
\* Claims about concurrent requests
\* ------------------------------------------------------------------------

\* Request r is between two driver calls of its operation.
MidOperation(r) ==
    /\ inflight[r].tool # "none"
    /\ inflight[r].issued \in 1..(Len(inflight[r].planned) - 1)

\* C26: the driver-call sequences of two requests never interleave: no
\* two requests are between driver calls of their operations at once.
C26_Serialized ==
    \A r1, r2 \in Requests : (MidOperation(r1) /\ MidOperation(r2)) => r1 = r2

\* ------------------------------------------------------------------------
\* Claims about the channel offset
\* ------------------------------------------------------------------------

\* The index the claim gives for channel argument c: c - 24 exactly when the
\* cached device name is "Digital Discovery".
ExpectedChannel(c) ==
    IF info.cached /\ info.Name = "Digital Discovery" THEN c - 24 ELSE c

\* C27: Pattern.Enable and Pattern.Disable address the driver channel that
\* Pattern.Generate addresses for the same argument, Static I/O uses the
\* same index, and that index is the argument minus 24 exactly when the
\* cached device name is "Digital Discovery".
C27_SameChannel ==
    /\ (opLast.inst = "pattern" /\ opLast.op \in {"Enable", "Disable"}) =>
         /\ Len(opLast.calls) >= 1
         /\ opLast.calls[1].fn = "EnableSet"
         /\ opLast.calls[1].arg = <<ExpectedChannel(opLast.channel),
                                    opLast.op = "Enable">>
         /\ \A cfg \in PatternConfigs :
              patternImpl_Generate([cfg EXCEPT !.Channel = opLast.channel], 0)
                  .calls[2].arg[1] = opLast.calls[1].arg[1]
         /\ StaticResult("SetMode", opLast.channel, TRUE, {}, TRUE, TRUE).ch
              = opLast.calls[1].arg[1]
    /\ (opLast.inst = "pattern" /\ opLast.op = "Generate"
          /\ Len(opLast.calls) >= 2) =>
         opLast.calls[2].arg[1] = ExpectedChannel(opLast.cfg.Channel)

\* Enable or Disable has addressed an offset channel on a Digital Discovery.
C27_Witness ==
    /\ opLast.inst = "pattern"
    /\ opLast.op \in {"Enable", "Disable"}
    /\ info.cached
    /\ info.Name = "Digital Discovery"
    /\ opLast.calls[1].arg[1] = opLast.channel - 24

\* ------------------------------------------------------------------------
\* Claims about the waveform generator
\* ------------------------------------------------------------------------

\* The driver functions Generate is to call for cfg, in order.
GenerateOrder(cfg) ==
    <<"NodeEnableSet", "NodeFunctionSet">>
    \o (IF cfg.Function = "custom" /\ cfg.DataLen > 0
        THEN <<"NodeDataSet">> ELSE <<>>)
    \o <<"NodeFrequencySet", "NodeAmplitudeSet", "NodeOffsetSet",
         "NodeSymmetrySet", "RunSet", "WaitSet", "RepeatSet", "Configure">>

\* C28: Wavegen.Generate issues its calls on driver channel cfg.Channel - 1
\* in the order enable, function, custom data (only for a custom function
\* with data), frequency, amplitude, offset, symmetry, run, wait, repeat,
\* configure-and-start; it stops at the first failing call and returns its
\* error, so configure-and-start follows only successful calls.
C28_GenerateSequence ==
    (opLast.inst = "wavegen" /\ opLast.op = "Generate") =>
      LET calls == opLast.calls
          order == GenerateOrder(opLast.cfg)
          n == Len(calls)
      IN /\ n \in 1..Len(order)
         /\ \A i \in 1..n :
              /\ calls[i].fn = order[i]
              /\ calls[i].arg[1] = opLast.cfg.Channel - 1
              /\ i < n => calls[i].ok
         /\ calls[n].ok <=> opLast.err = Nil
         /\ calls[n].ok => n = Len(order)
         /\ (n = Len(order)) => calls[n].arg = <<opLast.cfg.Channel - 1, TRUE>>

\* Generate of a custom waveform with data has started channel 2's
\* generator after ten successful calls.
C28_Witness ==
    /\ opLast.inst = "wavegen"
    /\ opLast.op = "Generate"
    /\ opLast.cfg.Channel = 2
    /\ Len(opLast.calls) = 11
    /\ opLast.calls[3].fn = "NodeDataSet"
    /\ opLast.calls[11].fn = "Configure"
    /\ opLast.err = Nil

\* ------------------------------------------------------------------------
\* Claims about Close
\* ------------------------------------------------------------------------

\* C29: whatever came before it, the Close of an instrument issues the
\* reset call of that instrument as its last driver call and returns the
\* result of that call.
C29_CloseResets ==
    /\ acq.op = "Close" =>
         /\ Len(acq.calls) = 1
         /\ acq.calls[1].fn = "Reset"
         /\ acq.calls[1].arg = (IF acq.engine = "scope" THEN "AnalogIn"
                                ELSE "DigitalIn")
         /\ (acq.err = Nil) <=> acq.calls[1].ok
    /\ (opLast.op = "Close" /\ opLast.inst \notin {"none", "device"}) =>
         /\ Len(opLast.calls) >= 1
         /\ opLast.calls[Len(opLast.calls)].fn = "Reset"
         /\ (opLast.err = Nil) <=> opLast.calls[Len(opLast.calls)].ok

\* The oscilloscope has been closed, with a reset that succeeded, without
\* having been opened.
C29_Witness ==
    /\ acq.op = "Close"
    /\ acq.engine = "scope"
    /\ acq.prev = "none"
    /\ bufferSize["scope"] = 0
    /\ handle # 0
    /\ acq.err = Nil

\* ------------------------------------------------------------------------
\* Claims about aborts
\* ------------------------------------------------------------------------

\* C30: no instrument operation aborts the process, whatever its arguments
\* and the state of its engine: every operation returns.
C30_NoAbort == ~aborted

\* ------------------------------------------------------------------------
\* Claims about the life of the session
\* ------------------------------------------------------------------------

\* C31: after Device.Close has returned, the session holds neither a handle
\* nor cached DeviceInfo: the channel offset and the static I/O channel
\* count are those of a session that was never opened.
C31_CloseDestroys ==
    (opLast.inst = "device" /\ opLast.op = "Close") =>
        /\ handle = 0
        /\ info = NoInfo
        /\ \A c \in ChannelArgs : adjustChannel(c) = c
        /\ channelCount = 16

\* ------------------------------------------------------------------------
\* Claims about the order of the engine operations
\* ------------------------------------------------------------------------

\* C32: Record arms an engine only when the Open of that engine has
\* succeeded since its last Close or since the start; in particular no
\* Record arms an engine that was never opened or was just closed.
C32_ArmedOnlyConfigured ==
    [][acq.op \in {"none", "Close"} => ~(acq'.op = "Record" /\ acq'.armed)]_vars

\* C33: no handle is left open in the driver: an Open that succeeds on a
\* session that holds a handle has released that handle, so that the
\* driver never has two handles open and the one Close that follows
\* releases the last.
C33_HandlesReleased ==
    (opLast.inst = "device" /\ opLast.op = "Open" /\ opLast.err = Nil
       /\ opLast.before # 0) =>
        \E i \in 1..Len(opLast.calls) :
            /\ opLast.calls[i].fn = "DeviceClose"
            /\ opLast.calls[i].arg = opLast.before

\* C34: the name a successful Device.Open caches is the name of the device
\* it opened, whichever enumeration index that device has, so the channel
\* offset is applied exactly when the opened device is a Digital Discovery.
C34_InfoOfOpenedDevice ==
    (opLast.inst = "device" /\ opLast.op = "Open" /\ opLast.err = Nil) =>
        /\ info.cached
        /\ info.Name = device.name
        /\ \A c \in ChannelArgs :
             (adjustChannel(c) = c - 24) <=> (device.name = "Digital Discovery")

\* C35: a Device.Open that returns an error changes neither the handle
\* nor the cached DeviceInfo of the session.
C35_FailedOpenKeepsSession ==
    [][(opLast'.inst = "device" /\ opLast'.op = "Open" /\ opLast'.err # Nil)
         => (handle' = handle /\ info' = info)]_vars

\* An Open has failed on a connected session, which is still connected.
C35_Witness ==
    /\ opLast.inst = "device"
    /\ opLast.op = "Open"
    /\ opLast.err # Nil
    /\ opLast.before # 0
    /\ handle = opLast.before
    /\ info.cached

\* ------------------------------------------------------------------------
\* Claims about the targets of the DMM
\* ------------------------------------------------------------------------

\* C36: every analog-I/O node write of DMM Open, Measure and Close, also
\* before any Open and after a failed Open, goes to a node of the channel
\* labeled "DMM".
C36_DmmWritesOnlyDmm ==
    opLast.inst = "dmm" =>
        \A i \in 1..Len(opLast.calls) :
            opLast.calls[i].fn = "NodeSet" =>
                /\ opLast.calls[i].ch \in 0..(ChannelCount - 1)
                /\ ChannelName(opLast.calls[i].ch) = "DMM"
                /\ opLast.calls[i].node \in 0..(ChannelInfo(opLast.calls[i].ch) - 1)

\* ------------------------------------------------------------------------
\* Claims about failed Opens of the engines
\* ------------------------------------------------------------------------

\* C37: an Open of the oscilloscope or the logic analyzer that returns an
\* error leaves the recorded buffer size of the engine as it was.
C37_FailedOpenKeepsSize ==
    [][(acq'.op = "Open" /\ acq'.err # Nil) => bufferSize' = bufferSize]_vars

\* ------------------------------------------------------------------------
\* Claims about the pulse counters
\* ------------------------------------------------------------------------

\* C38: for a pulse of a frequency from 1 Hz up to the internal clock and
\* a duty cycle in percent (0 to 100), the step count Generate computes is
\* 1, and the counter pair it programs is low 1, high 0 below 100 percent
\* and low 0, high 1 at 100 percent, whatever the frequency.
C38_PulseStepsOne ==
    (/\ opLast.inst = "pattern"
     /\ opLast.op = "Generate"
     /\ opLast.cfg.Function = "pulse"
     /\ opLast.cfg.Frequency \in 1..InternalClock
     /\ opLast.cfg.DutyCycle \in 0..100) =>
        /\ ~opLast.panicked
        /\ opLast.steps = 1
        /\ LET sets == CallsTo(opLast.calls, "CounterSet")
           IN /\ opLast.err = Nil => Len(sets) = 1
              /\ \A i \in 1..Len(sets) :
                   /\ sets[i].arg.low = (IF opLast.cfg.DutyCycle = 100 THEN 0 ELSE 1)
                   /\ sets[i].arg.high = (IF opLast.cfg.DutyCycle = 100 THEN 1 ELSE 0)

\* A pulse of 3 Hz and 99 percent has been programmed as low 1, high 0.
C38_Witness ==
    /\ opLast.inst = "pattern"
    /\ opLast.op = "Generate"
    /\ opLast.cfg.Function = "pulse"
    /\ opLast.cfg.Frequency = 3
    /\ opLast.cfg.DutyCycle = 99
    /\ opLast.err = Nil
    /\ CallsTo(opLast.calls, "CounterSet")[1].arg.low = 1
    /\ CallsTo(opLast.calls, "CounterSet")[1].arg.high = 0

====
